---- MODULE Spec2Model ----
(***************************************************************************)
(* School-Planner (skoolplannr): subject scoring, grade bands and the       *)
(* assessment upsert / grade finalisation of the two storage services;     *)
(* the GPA functions, the dashboard's schedule and due-soon lists; the     *)
(* terms, subjects, tasks and events of the store with the stored SGPA     *)
(* and CGPA.                                                               *)
(*                                                                         *)
(* Number representation.  Raw marks are whole marks (integers).  A        *)
(* reduced ceiling (reduced_to) is held in tenths of a mark, so that 2.5   *)
(* is 25.  A weighted value is held in units of 1/6000 mark, which is      *)
(* exact for every max_raw of the rule table (each divides 600).  A score  *)
(* rounded to 2 decimals is held in hundredths (90.00 is 9000).  For whole *)
(* raw marks every weighted sum is a multiple of 1/12 mark, so it is never *)
(* within 1/3 of a hundredth of a rounding tie and Python's binary         *)
(* floating point rounds it as the exact arithmetic below does.            *)
(***************************************************************************)
EXTENDS Integers, Sequences, FiniteSets, TLC

VARIABLES
    call,        \* the pending call of a pure function: its name and arguments
    ret,         \* what that call returned or raised ("pending" before it ran)
    backend,     \* "appwrite" or "firestore": the storage service in use
    subjects,    \* the subject documents of the store
    assessments, \* the assessment documents of the store
    grades,      \* the grade documents of the store
    outcome,     \* what the last completed operation of a service returned
    procs,       \* the save_assessments_and_grade calls in progress, per caller
    users,       \* the profile documents of the store, by user id
    years,       \* the academic year documents of the store
    terms,       \* the term documents of the store
    tasks_collection,   \* the task documents of the store
    events_collection   \* the event documents of the store

vars == <<call, ret, backend, subjects, assessments, grades, outcome, procs,
          users, years, terms, tasks_collection, events_collection>>

(***************************************************************************)
(* Bounds of the model.                                                    *)
(***************************************************************************)
\* raw marks are drawn from MarkSteps + 2 values per component (see MarkAt)
MarkSteps == 1
\* a submission to the store leaves out at most MaxPartial of the required
\* components (or is empty, or holds a single component)
MaxPartial == 1
\* scores handed to the band mapping range over [0 - ScoreMargin, 10000 + ScoreMargin]
ScoreMargin == 50

(***************************************************************************)
(* core/grades.py                                                          *)
(***************************************************************************)
AssessmentRule(name, max_raw, reduced_to) ==
    [name |-> name, max_raw |-> max_raw, reduced_to |-> reduced_to]

\* The rule table, each entry in the insertion order of its dict; reduced_to in tenths.
RULES_BY_CREDITS ==
    2 :> << AssessmentRule("ISA1", 30, 250),
            AssessmentRule("ISA2", 30, 250),
            AssessmentRule("ESA", 50, 500) >>
 @@ 4 :> << AssessmentRule("ISA1", 40, 200),
            AssessmentRule("ISA2", 40, 200),
            AssessmentRule("ESA", 100, 500),
            AssessmentRule("A1", 10, 25),
            AssessmentRule("A2", 10, 25),
            AssessmentRule("A3", 10, 25),
            AssessmentRule("A4", 10, 25) >>
 @@ 5 :> << AssessmentRule("ISA1", 40, 200),
            AssessmentRule("ISA2", 40, 200),
            AssessmentRule("ESA", 100, 500),
            AssessmentRule("A1", 10, 25),
            AssessmentRule("A2", 10, 25),
            AssessmentRule("A3", 10, 25),
            AssessmentRule("A4", 10, 25),
            AssessmentRule("LAB", 20, 200) >>

Min(a, b) == IF a <= b THEN a ELSE b
Max(a, b) == IF a >= b THEN a ELSE b

\* the names of a rule sequence, in order
RuleNames(rules) == [i \in 1..Len(rules) |-> rules[i].name]

\* the set of a sequence's elements
Range(seq) == {seq[i] : i \in 1..Len(seq)}

\* (clamped / max_raw) * reduced_to, in units of 1/6000 mark
\* (the guard max_raw <= 0 never fires for a rule of the table)
_scale_to_weighted(raw_score, max_raw, reduced_to) ==
    LET clamped == Max(0, Min(raw_score, max_raw))
    IN  (clamped * reduced_to * 600) \div max_raw

\* round(total, 2): units of 1/6000 mark to hundredths, ties to even
Round2(total) ==
    LET q == total \div 60
        r == total % 60
    IN  IF 2 * r < 60 THEN q
        ELSE IF 2 * r > 60 THEN q + 1
        ELSE IF q % 2 = 0 THEN q ELSE q + 1

\* MissingFrom building its list back to front
RECURSIVE Mutant_MissingFrom_Reversed(_, _)
Mutant_MissingFrom_Reversed(rules, raw_scores) ==
    IF rules = << >> THEN << >>
    ELSE Mutant_MissingFrom_Reversed(Tail(rules), raw_scores)
         \o (IF Head(rules).name \in DOMAIN raw_scores THEN << >> ELSE << Head(rules).name >>)

\* [name for name in rules if name not in raw_scores]
RECURSIVE MissingFrom(_, _)
MissingFrom(rules, raw_scores) ==
    IF rules = << >> THEN << >>
    ELSE (IF Head(rules).name \in DOMAIN raw_scores THEN << >> ELSE << Head(rules).name >>)
         \o MissingFrom(Tail(rules), raw_scores)

\* the loop total += _scale_to_weighted(raw_scores[name], ...) over rules.items()
RECURSIVE WeightedTotal(_, _)
WeightedTotal(rules, raw_scores) ==
    IF rules = << >> THEN 0
    ELSE _scale_to_weighted(raw_scores[Head(rules).name], Head(rules).max_raw, Head(rules).reduced_to)
         + WeightedTotal(Tail(rules), raw_scores)

\* calculate_subject_score falling back to the 2-credit rules for an unknown model
Mutant_calculate_subject_score_DefaultRules(credits, raw_scores) ==
    LET rules == IF credits \in DOMAIN RULES_BY_CREDITS THEN RULES_BY_CREDITS[credits]
                 ELSE RULES_BY_CREDITS[2]
        missing == MissingFrom(rules, raw_scores)
    IN  IF missing # << >>
        THEN [ok |-> FALSE, error |-> "Missing required assessment scores"]
        ELSE [ok |-> TRUE, score |-> Round2(WeightedTotal(rules, raw_scores))]

\* Returns [ok |-> TRUE, score] or, for a raised ValueError, [ok |-> FALSE, error].
calculate_subject_score(credits, raw_scores) ==
    IF credits \notin DOMAIN RULES_BY_CREDITS
    THEN [ok |-> FALSE, error |-> "Unsupported credit model"]
    ELSE LET rules == RULES_BY_CREDITS[credits]
             missing == MissingFrom(rules, raw_scores)
         IN  IF missing # << >>
             THEN [ok |-> FALSE, error |-> "Missing required assessment scores"]
             ELSE [ok |-> TRUE, score |-> Round2(WeightedTotal(rules, raw_scores))]

\* to_letter_grade with the S boundary exclusive
Mutant_to_letter_grade_StrictS(score_100) ==
    LET score == Max(0, Min(score_100, 10000))
    IN  IF score > 9000 THEN "S"
        ELSE IF score >= 8000 THEN "A"
        ELSE IF score >= 7000 THEN "B"
        ELSE IF score >= 6000 THEN "C"
        ELSE IF score >= 5000 THEN "D"
        ELSE IF score >= 4000 THEN "E"
        ELSE "F"

to_letter_grade(score_100) ==
    LET score == Max(0, Min(score_100, 10000))
    IN  IF score >= 9000 THEN "S"
        ELSE IF score >= 8000 THEN "A"
        ELSE IF score >= 7000 THEN "B"
        ELSE IF score >= 6000 THEN "C"
        ELSE IF score >= 5000 THEN "D"
        ELSE IF score >= 4000 THEN "E"
        ELSE "F"

\* str.upper() on the one-letter strings the mapping is asked about
Upper(letter) ==
    LET lower == ("s" :> "S" @@ "a" :> "A" @@ "b" :> "B" @@ "c" :> "C"
                  @@ "d" :> "D" @@ "e" :> "E" @@ "f" :> "F")
    IN  IF letter \in DOMAIN lower THEN lower[letter] ELSE letter

\* Returns the point, or -1 for the ValueError raised on a KeyError.
to_grade_point(letter_grade) ==
    LET mapping == ("S" :> 10 @@ "A" :> 9 @@ "B" :> 8 @@ "C" :> 7
                    @@ "D" :> 6 @@ "E" :> 5 @@ "F" :> 4)
    IN  IF Upper(letter_grade) \in DOMAIN mapping THEN mapping[Upper(letter_grade)] ELSE -1

\* Returns [ok |-> TRUE, score, letter, point] or the error of calculate_subject_score.
evaluate_subject(credits, raw_scores) ==
    LET res == calculate_subject_score(credits, raw_scores)
    IN  IF ~res.ok THEN res
        ELSE LET letter == to_letter_grade(res.score)
             IN  [ok |-> TRUE, score |-> res.score, letter |-> letter,
                  point |-> to_grade_point(letter)]

(***************************************************************************)
(* Inputs.                                                                 *)
(***************************************************************************)
\* the raw marks tried for a component: below 0, above max_raw, and inside
MarkAt(max_raw, level) ==
    IF level = 0 THEN -1
    ELSE IF level = 1 THEN max_raw + 1
    ELSE max_raw \div (level + 1)

Marks(max_raw) == {MarkAt(max_raw, level) : level \in 0..(MarkSteps + 1)}

\* a component name that is in no rule table, and the mark submitted for it
UnknownName == "QUIZ"
UnknownScores == (UnknownName :> 5)

\* the credit values tried: the three of the rule table, and four that are not
\* in it (0 is what int(subject.get("credits", 0)) gives a subject without credits)
CreditChoices == DOMAIN RULES_BY_CREDITS \cup {0, 1, 3, 6}

\* the rule names a submission is built from (those of the 2-credit model when
\* the credit model is not in the table)
InputRules(credits) ==
    IF credits \in DOMAIN RULES_BY_CREDITS THEN RULES_BY_CREDITS[credits]
    ELSE RULES_BY_CREDITS[2]

EmptyScores == [n \in {} |-> 0]

\* a collection with no document
NoDocs == [i \in {} |-> 0]

\* every raw-score set over a subset of the rules' names, each mark from Marks
RECURSIVE RawScoreSets(_)
RawScoreSets(rules) ==
    IF rules = << >> THEN {EmptyScores}
    ELSE LET rest == RawScoreSets(Tail(rules))
             r == Head(rules)
         IN  rest \cup {(r.name :> m) @@ rs : m \in Marks(r.max_raw), rs \in rest}

\* the same sets, and each of them with the unknown component added
RawScoreInputs(credits) ==
    LET known == RawScoreSets(InputRules(credits))
    IN  known \cup {UnknownScores @@ rs : rs \in known}

(***************************************************************************)
(* The pure functions, called on their own.                                *)
(***************************************************************************)
Pending == [done |-> FALSE]

NoStore ==
    /\ backend = "none"
    /\ subjects = NoDocs
    /\ assessments = NoDocs
    /\ grades = NoDocs
    /\ outcome = [done |-> FALSE]
    /\ procs = << >>
    /\ users = NoDocs
    /\ years = NoDocs
    /\ terms = NoDocs
    /\ tasks_collection = NoDocs
    /\ events_collection = NoDocs

StoreUnchanged ==
    UNCHANGED <<backend, subjects, assessments, grades, outcome, procs,
                users, years, terms, tasks_collection, events_collection>>

\* the collections that save_assessments_and_grade neither reads nor writes
\* (its reads of the profile and the term are modelled where terms are)
NoTerms ==
    /\ users = NoDocs
    /\ years = NoDocs
    /\ terms = NoDocs
    /\ tasks_collection = NoDocs
    /\ events_collection = NoDocs

\* to_letter_grade followed by to_grade_point, as evaluate_subject chains them
InitBand ==
    /\ \E s \in (0 - ScoreMargin)..(10000 + ScoreMargin) :
          call = [op |-> "to_letter_grade", score |-> s]
    /\ ret = Pending
    /\ NoStore

GradeOfScore ==
    /\ call.op = "to_letter_grade"
    /\ ~ret.done
    /\ LET letter == to_letter_grade(call.score)
       IN  ret' = [done |-> TRUE, letter |-> letter, point |-> to_grade_point(letter)]
    /\ UNCHANGED call
    /\ StoreUnchanged

NextBand == GradeOfScore

SpecBand == InitBand /\ [][NextBand]_vars

InitEval ==
    /\ \E credits \in CreditChoices :
          \E raw_scores \in RawScoreInputs(credits) :
             call = [op |-> "evaluate_subject", credits |-> credits, raw_scores |-> raw_scores]
    /\ ret = Pending
    /\ NoStore

EvaluateSubject ==
    /\ call.op = "evaluate_subject"
    /\ ~ret.done
    /\ ret' = [done |-> TRUE, value |-> evaluate_subject(call.credits, call.raw_scores)]
    /\ UNCHANGED call
    /\ StoreUnchanged

NextEval == EvaluateSubject

SpecEval == InitEval /\ [][NextEval]_vars

(***************************************************************************)
(* The document store.  A collection is a function from document id to the *)
(* record of the document's attributes; a listed document is [id, data].   *)
(* Every update of the services modelled here sends all attributes of the  *)
(* document, so an update replaces the record.  Appwrite ids come from     *)
(* ID.unique(): opaque and unique, so the model takes <<kind, n>> with the *)
(* least n that no document of the collection and no call in progress      *)
(* holds.  A Firestore document is addressed by its path: user_id and      *)
(* subject_id stand for the path above the document and the id is          *)
(* <<key, 0>>.  The grade document's updated_at timestamp is left out:     *)
(* nothing modelled reads it.                                              *)
(***************************************************************************)
Users == {"u1"}

Ids(docs) == DOMAIN docs

\* the documents of those ids, as a listing returns them
Listing(docs, ids) == {[id |-> i, data |-> docs[i]] : i \in ids}

\* ID.unique()
UniqueId(kind, used) ==
    <<kind, CHOOSE n \in 1..(Cardinality(used) + 1) :
               /\ <<kind, n>> \notin used
               /\ \A m \in 1..(n - 1) : <<kind, m>> \in used>>

\* _list_documents with Query.equal("user_id") and Query.equal("subject_id")
ListBySubject(docs, uid, subject_id) ==
    Listing(docs, {i \in DOMAIN docs : docs[i].user_id = uid /\ docs[i].subject_id = subject_id})

\* _create_document: a new document under a fresh id
_create_document(docs, held, kind, data) ==
    (UniqueId(kind, Ids(docs) \cup held) :> data) @@ docs

\* _update_document: a missing document is an AppwriteException, raised as
\* AppwriteServiceError
_update_document(docs, document_id, data) ==
    IF document_id \notin Ids(docs) THEN [ok |-> FALSE, docs |-> docs]
    ELSE [ok |-> TRUE, docs |-> [docs EXCEPT ![document_id] = data]]

\* the collection without that document
Without(docs, document_id) == [i \in DOMAIN docs \ {document_id} |-> docs[i]]

\* _delete_document: a missing document is an error too
_delete_document(docs, document_id) ==
    IF document_id \notin Ids(docs) THEN [ok |-> FALSE, docs |-> docs]
    ELSE [ok |-> TRUE, docs |-> Without(docs, document_id)]

\* get_subject of either service: the user's subject of that id, as a set
\* ({} is the empty dict the code returns when there is none)
get_subject(subjs, uid, subject_id) ==
    Listing(subjs, {i \in DOMAIN subjs : i = subject_id /\ subjs[i].user_id = uid})

\* get_assessments of either service: type -> score_raw over the subject's documents
get_assessments(docs, uid, subject_id) ==
    LET mine == ListBySubject(docs, uid, subject_id)
        types == {d.data.type : d \in mine}
    IN  [t \in types |-> (CHOOSE d \in mine : d.data.type = t).data.score_raw]

\* the payload written for one submitted component (score_weighted in hundredths)
AssessmentPayload(uid, subject_id, rule, raw) ==
    LET weighted == (Max(0, Min(raw, rule.max_raw)) * rule.reduced_to * 600) \div rule.max_raw
    IN  [user_id |-> uid, subject_id |-> subject_id, type |-> rule.name,
         max_raw |-> rule.max_raw, weight_to |-> rule.reduced_to,
         score_raw |-> raw, score_weighted |-> Round2(weighted)]

\* existing_by_type.get(name) can be: None ({}), or a listed document of that
\* type (the last listed of its type wins; the order of a listing is the store's)
ExistingDocChoices(existing, name) ==
    LET typed == {d \in existing : d.data.type = name}
    IN  IF typed = {} THEN {{}} ELSE {{d} : d \in typed}

\* _find_first: the first document of a listing limited to 1, as a set
FindFirstChoices(matching) ==
    IF matching = {} THEN {{}} ELSE {{d} : d \in matching}

Raised(message) == [ok |-> FALSE, error |-> message]

\* AppwriteAssessmentStep that creates a document for every submitted
\* component, whether one exists or not
Mutant_AppwriteAssessmentStep_AlwaysCreates(docs, held, uid, subject_id, rule, raw_scores, existing_doc) ==
    IF rule.name \in DOMAIN raw_scores
    THEN [ok |-> TRUE,
          docs |-> _create_document(docs, held, rule.name,
                                    AssessmentPayload(uid, subject_id, rule,
                                                      raw_scores[rule.name]))]
    ELSE IF existing_doc # {}
         THEN _delete_document(docs, (CHOOSE d \in existing_doc : TRUE).id)
         ELSE [ok |-> TRUE, docs |-> docs]

\* One iteration of the Appwrite loop over rules.items(): [ok, docs].
AppwriteAssessmentStep(docs, held, uid, subject_id, rule, raw_scores, existing_doc) ==
    IF rule.name \in DOMAIN raw_scores
    THEN LET payload == AssessmentPayload(uid, subject_id, rule, raw_scores[rule.name])
         IN  IF existing_doc # {}
             THEN _update_document(docs, (CHOOSE d \in existing_doc : TRUE).id, payload)
             ELSE [ok |-> TRUE, docs |-> _create_document(docs, held, rule.name, payload)]
    ELSE IF existing_doc # {}
         THEN _delete_document(docs, (CHOOSE d \in existing_doc : TRUE).id)
         ELSE [ok |-> TRUE, docs |-> docs]

\* The whole loop over the listing `existing`, stopping at the first raised error.
RECURSIVE AppwriteAssessmentLoop(_, _, _, _, _, _, _)
AppwriteAssessmentLoop(docs, held, uid, subject_id, rules, raw_scores, existing) ==
    IF rules = << >> THEN [ok |-> TRUE, docs |-> docs]
    ELSE LET existing_doc == CHOOSE e \in ExistingDocChoices(existing, Head(rules).name) : TRUE
             step == AppwriteAssessmentStep(docs, held, uid, subject_id, Head(rules),
                                            raw_scores, existing_doc)
         IN  IF ~step.ok THEN step
             ELSE AppwriteAssessmentLoop(step.docs, held, uid, subject_id, Tail(rules),
                                         raw_scores, existing)

\* the grade document of a complete submission
GradeDoc(uid, sb, credits, ev) ==
    [partial |-> FALSE, user_id |-> uid, subject_id |-> sb.id, subject_name |-> sb.data.name,
     credits |-> credits, final_score_100 |-> ev.score, letter_grade |-> ev.letter,
     grade_point |-> ev.point]

PartialResult(missing, subject_id) ==
    [ok |-> TRUE, partial |-> TRUE, missing |-> missing, subject_id |-> subject_id]

FinalResult(grade_doc) == [ok |-> TRUE, partial |-> FALSE, grade_doc |-> grade_doc]

\* AppwriteFinalize without the retraction of an existing grade
Mutant_AppwriteFinalize_KeepsGrade(gdocs, held, uid, sb, credits, raw_scores, existing_grade) ==
    LET missing == MissingFrom(RULES_BY_CREDITS[credits], raw_scores)
    IN  IF missing # << >>
        THEN [docs |-> gdocs, result |-> PartialResult(missing, sb.id)]
        ELSE LET ev == evaluate_subject(credits, raw_scores)
                 grade_doc == GradeDoc(uid, sb, credits, ev)
             IN  IF existing_grade # {}
                 THEN LET upd == _update_document(gdocs, (CHOOSE g \in existing_grade : TRUE).id,
                                                  grade_doc)
                      IN  [docs |-> upd.docs,
                           result |-> IF upd.ok THEN FinalResult(grade_doc)
                                      ELSE Raised("document not found")]
                 ELSE [docs |-> _create_document(gdocs, held, "grade", grade_doc),
                       result |-> FinalResult(grade_doc)]

\* Appwrite, from `missing = ...` to the return: [docs, result] over the grades.
AppwriteFinalize(gdocs, held, uid, sb, credits, raw_scores, existing_grade) ==
    LET missing == MissingFrom(RULES_BY_CREDITS[credits], raw_scores)
    IN  IF missing # << >>
        THEN IF existing_grade # {}
             THEN LET del == _delete_document(gdocs, (CHOOSE g \in existing_grade : TRUE).id)
                  IN  [docs |-> del.docs,
                       result |-> IF del.ok THEN PartialResult(missing, sb.id)
                                  ELSE Raised("document not found")]
             ELSE [docs |-> gdocs, result |-> PartialResult(missing, sb.id)]
        ELSE LET ev == evaluate_subject(credits, raw_scores)
                 grade_doc == GradeDoc(uid, sb, credits, ev)
             IN  IF existing_grade # {}
                 THEN LET upd == _update_document(gdocs, (CHOOSE g \in existing_grade : TRUE).id,
                                                  grade_doc)
                      IN  [docs |-> upd.docs,
                           result |-> IF upd.ok THEN FinalResult(grade_doc)
                                      ELSE Raised("document not found")]
                 ELSE [docs |-> _create_document(gdocs, held, "grade", grade_doc),
                       result |-> FinalResult(grade_doc)]

\* AppwriteService.save_assessments_and_grade, run without interruption:
\* [assessments, grades, result].
Appwrite_save_assessments_and_grade(subjs, adocs, gdocs, uid, subject_id, raw_scores) ==
    LET found == get_subject(subjs, uid, subject_id)
        unchanged(result) == [assessments |-> adocs, grades |-> gdocs, result |-> result]
    IN  IF found = {} THEN unchanged(Raised("Subject not found for grade input."))
        ELSE
        LET sb == CHOOSE x \in found : TRUE
            credits == sb.data.credits
        IN  IF credits \notin DOMAIN RULES_BY_CREDITS
            THEN unchanged(Raised("Unsupported credit model for subject."))
            ELSE
            LET existing == ListBySubject(adocs, uid, subject_id)
                loop == AppwriteAssessmentLoop(adocs, {}, uid, subject_id,
                                               RULES_BY_CREDITS[credits], raw_scores,
                                               existing)
            IN  IF ~loop.ok
                THEN [assessments |-> loop.docs, grades |-> gdocs,
                      result |-> Raised("document not found")]
                ELSE
                LET existing_grade ==
                        CHOOSE e \in FindFirstChoices(ListBySubject(gdocs, uid, subject_id)) : TRUE
                    fin == AppwriteFinalize(gdocs, {}, uid, sb, credits, raw_scores, existing_grade)
                IN  [assessments |-> loop.docs, grades |-> fin.docs, result |-> fin.result]

\* document(key).set(data) under the path of (uid, subject_id)
FirestoreSet(docs, key, data) ==
    IF <<key, 0>> \in DOMAIN docs THEN [docs EXCEPT ![<<key, 0>>] = data]
    ELSE (<<key, 0>> :> data) @@ docs

\* document(key).delete(): no error when there is no such document
FirestoreDelete(docs, key) ==
    IF <<key, 0>> \in DOMAIN docs THEN Without(docs, <<key, 0>>) ELSE docs

\* FirestoreAssessmentStep that leaves an omitted component's document in place
Mutant_FirestoreAssessmentStep_NoDelete(docs, uid, subject_id, rule, raw_scores) ==
    IF rule.name \in DOMAIN raw_scores
    THEN FirestoreSet(docs, rule.name,
                      AssessmentPayload(uid, subject_id, rule, raw_scores[rule.name]))
    ELSE docs

\* One iteration of the Firestore loop: document(name).set(...) or .delete().
FirestoreAssessmentStep(docs, uid, subject_id, rule, raw_scores) ==
    IF rule.name \in DOMAIN raw_scores
    THEN FirestoreSet(docs, rule.name,
                      AssessmentPayload(uid, subject_id, rule, raw_scores[rule.name]))
    ELSE FirestoreDelete(docs, rule.name)

RECURSIVE FirestoreAssessmentLoop(_, _, _, _, _)
FirestoreAssessmentLoop(docs, uid, subject_id, rules, raw_scores) ==
    IF rules = << >> THEN docs
    ELSE FirestoreAssessmentLoop(
             FirestoreAssessmentStep(docs, uid, subject_id, Head(rules), raw_scores),
             uid, subject_id, Tail(rules), raw_scores)

\* FirestoreFinalize that writes the grade only when the subject has none
Mutant_FirestoreFinalize_NoOverwrite(gdocs, uid, sb, credits, raw_scores) ==
    LET missing == MissingFrom(RULES_BY_CREDITS[credits], raw_scores)
    IN  IF missing # << >>
        THEN [docs |-> FirestoreDelete(gdocs, sb.id), result |-> PartialResult(missing, sb.id)]
        ELSE LET ev == evaluate_subject(credits, raw_scores)
                 grade_doc == GradeDoc(uid, sb, credits, ev)
             IN  [docs |-> IF <<sb.id, 0>> \in DOMAIN gdocs THEN gdocs
                           ELSE FirestoreSet(gdocs, sb.id, grade_doc),
                  result |-> FinalResult(grade_doc)]

\* Firestore, from `missing = ...` to the return: [docs, result] over the grades.
FirestoreFinalize(gdocs, uid, sb, credits, raw_scores) ==
    LET missing == MissingFrom(RULES_BY_CREDITS[credits], raw_scores)
    IN  IF missing # << >>
        THEN [docs |-> FirestoreDelete(gdocs, sb.id), result |-> PartialResult(missing, sb.id)]
        ELSE LET ev == evaluate_subject(credits, raw_scores)
                 grade_doc == GradeDoc(uid, sb, credits, ev)
             IN  [docs |-> FirestoreSet(gdocs, sb.id, grade_doc),
                  result |-> FinalResult(grade_doc)]

\* FirestoreService.save_assessments_and_grade, run without interruption.
Firestore_save_assessments_and_grade(subjs, adocs, gdocs, uid, subject_id, raw_scores) ==
    LET found == get_subject(subjs, uid, subject_id)
        unchanged(result) == [assessments |-> adocs, grades |-> gdocs, result |-> result]
    IN  IF found = {} THEN unchanged(Raised("Subject not found for grade input."))
        ELSE
        LET sb == CHOOSE x \in found : TRUE
            credits == sb.data.credits
        IN  IF credits \notin DOMAIN RULES_BY_CREDITS
            THEN unchanged(Raised("Unsupported credit model for subject."))
            ELSE
            LET fin == FirestoreFinalize(gdocs, uid, sb, credits, raw_scores)
            IN  [assessments |-> FirestoreAssessmentLoop(adocs, uid, subject_id,
                                                         RULES_BY_CREDITS[credits], raw_scores),
                 grades |-> fin.docs, result |-> fin.result]

(***************************************************************************)
(* The services called one call at a time (no two calls overlap).          *)
(***************************************************************************)
\* the rule with that name
RuleOf(rules, name) == rules[CHOOSE i \in 1..Len(rules) : rules[i].name = name]

\* a submission of the components `present`, every mark at the same level
UniformScores(rules, present, level) ==
    [n \in present |-> MarkAt(RuleOf(rules, n).max_raw, level)]

\* the component sets a submission to the store may hold
PresentChoices(names) ==
    {present \in SUBSET names :
        \/ Cardinality(names \ present) <= MaxPartial
        \/ Cardinality(present) <= 1}

\* the submissions tried against the store: each of those component sets at
\* every level from 1 up, and each of them with the unknown component added
StoreInputs(credits) ==
    LET rules == InputRules(credits)
        known == {UniformScores(rules, present, level) :
                     present \in PresentChoices(Range(RuleNames(rules))),
                     level \in 1..(MarkSteps + 1)}
    IN  known \cup {UnknownScores @@ rs : rs \in known}

StoreInputsOf == [credits \in CreditChoices |-> StoreInputs(credits)]

InitStore ==
    /\ call = [op |-> "none"]
    /\ ret = Pending
    /\ backend \in {"appwrite", "firestore"}
    /\ \E credits \in CreditChoices :
          subjects = ("s1" :> [user_id |-> "u1", name |-> "Maths", credits |-> credits])
    /\ assessments = NoDocs
    /\ grades = NoDocs
    /\ outcome = [done |-> FALSE]
    /\ procs = << >>
    /\ NoTerms


\* the record of a completed call: its arguments, whether the subject had a
\* grade document when it began, and what it returned or raised
Completed(uid, subject_id, raw_scores, had_grade, result) ==
    [done |-> TRUE, uid |-> uid, subject_id |-> subject_id, raw_scores |-> raw_scores,
     had_grade |-> had_grade, result |-> result]

AppwriteSave ==
    /\ backend = "appwrite"
    /\ \E uid \in Users, sb \in Listing(subjects, DOMAIN subjects) :
          \E raw_scores \in StoreInputsOf[sb.data.credits] :
             LET r == Appwrite_save_assessments_and_grade(subjects, assessments, grades,
                                                          uid, sb.id, raw_scores)
             IN  /\ assessments' = r.assessments
                 /\ grades' = r.grades
                 /\ outcome' = Completed(uid, sb.id, raw_scores,
                                         ListBySubject(grades, uid, sb.id) # {}, r.result)
    /\ UNCHANGED <<call, ret, backend, subjects, procs>>
    /\ UNCHANGED <<users, years, terms, tasks_collection, events_collection>>

FirestoreSave ==
    /\ backend = "firestore"
    /\ \E uid \in Users, sb \in Listing(subjects, DOMAIN subjects) :
          \E raw_scores \in StoreInputsOf[sb.data.credits] :
             LET r == Firestore_save_assessments_and_grade(subjects, assessments, grades,
                                                           uid, sb.id, raw_scores)
             IN  /\ assessments' = r.assessments
                 /\ grades' = r.grades
                 /\ outcome' = Completed(uid, sb.id, raw_scores,
                                         ListBySubject(grades, uid, sb.id) # {}, r.result)
    /\ UNCHANGED <<call, ret, backend, subjects, procs>>
    /\ UNCHANGED <<users, years, terms, tasks_collection, events_collection>>

NextStore == AppwriteSave \/ FirestoreSave

SpecStore == InitStore /\ [][NextStore]_vars

(***************************************************************************)
(* Unsupported credit models only: the pure evaluation and the two         *)
(* services, each started on a credit value that is not in the rule table. *)
(***************************************************************************)
InitFailClosed ==
    \/ InitEval /\ call.credits \notin DOMAIN RULES_BY_CREDITS
    \/ InitStore /\ \A sid \in DOMAIN subjects :
                       subjects[sid].credits \notin DOMAIN RULES_BY_CREDITS

NextFailClosed == EvaluateSubject \/ AppwriteSave \/ FirestoreSave

SpecFailClosed == InitFailClosed /\ [][NextFailClosed]_vars

(***************************************************************************)
(* The services with calls in progress.  A call is a process that takes    *)
(* one store request (a read, a write or a delete) per step, so that calls *)
(* overlap and every state between two requests can be observed.  Neither  *)
(* service takes a lock or opens a transaction around the requests of one  *)
(* call.  procs[p] holds the local variables of the call process p runs.   *)
(***************************************************************************)
Procs == {"p1", "p2"}

\* the calls one process makes
MaxCalls == 1

\* the credit models of the subject the overlapping calls are made on
StepCredits == {2, 3}

\* a process between two calls
IdleProc ==
    [pc |-> "idle", uid |-> "", raw_scores |-> EmptyScores, sb |-> {}, existing |-> {},
     i |-> 0, existing_grade |-> {}, calls |-> 0]

\* the submissions of overlapping calls: at most MaxPartial components omitted
StepInputs(credits) ==
    LET rules == InputRules(credits)
        names == Range(RuleNames(rules))
    IN  {UniformScores(rules, present, level) :
            present \in {q \in SUBSET names : Cardinality(names \ q) <= MaxPartial},
            level \in 1..(MarkSteps + 1)}

StepInputsOf == [credits \in StepCredits |-> StepInputs(credits)]

\* the document ids the calls in progress hold in their local variables
Held(ps) ==
    UNION {{d.id : d \in ps[p].existing \cup ps[p].existing_grade} : p \in Procs}

\* the process after its call returned or raised
Returned(me) == [IdleProc EXCEPT !.calls = me.calls + 1]

\* the subject document and the rule table a call in progress works with
SubjectOf(me) == CHOOSE x \in me.sb : TRUE

RulesOf(me) == RULES_BY_CREDITS[SubjectOf(me).data.credits]

InitSteps ==
    /\ call = [op |-> "none"]
    /\ ret = Pending
    /\ backend \in {"appwrite", "firestore"}
    /\ \E credits \in StepCredits :
          subjects = ("s1" :> [user_id |-> "u1", name |-> "Maths", credits |-> credits])
    /\ assessments = NoDocs
    /\ grades = NoDocs
    /\ outcome = [done |-> FALSE]
    /\ procs = [p \in Procs |-> IdleProc]
    /\ NoTerms


\* the call begins: get_subject and the test of the credit model
StepBegin(p) ==
    /\ procs[p].pc = "idle"
    /\ procs[p].calls < MaxCalls
    /\ \E uid \in Users, sb \in Listing(subjects, DOMAIN subjects) :
          \E raw_scores \in StepInputsOf[sb.data.credits] :
             LET found == get_subject(subjects, uid, sb.id)
                 message == IF found = {} THEN "Subject not found for grade input."
                            ELSE "Unsupported credit model for subject."
             IN  IF found = {} \/ sb.data.credits \notin DOMAIN RULES_BY_CREDITS
                 THEN /\ procs' = [procs EXCEPT ![p] = Returned(@)]
                      /\ outcome' = Completed(uid, sb.id, raw_scores, FALSE, Raised(message))
                 ELSE /\ procs' = [procs EXCEPT ![p] =
                                      [@ EXCEPT !.pc = IF backend = "appwrite" THEN "list"
                                                       ELSE "loop",
                                                !.uid = uid, !.raw_scores = raw_scores,
                                                !.sb = found, !.i = 1]]
                      /\ outcome' = outcome
    /\ UNCHANGED <<call, ret, backend, subjects, assessments, grades>>
    /\ UNCHANGED <<users, years, terms, tasks_collection, events_collection>>

\* Appwrite: existing = _list_documents(assessments of the subject)
AppwriteListStep(p) ==
    /\ backend = "appwrite"
    /\ procs[p].pc = "list"
    /\ LET me == procs[p]
       IN  procs' = [procs EXCEPT ![p] =
                        [me EXCEPT !.pc = "loop",
                                   !.existing = ListBySubject(assessments, me.uid,
                                                              SubjectOf(me).id)]]
    /\ UNCHANGED <<call, ret, backend, subjects, assessments, grades, outcome>>
    /\ UNCHANGED <<users, years, terms, tasks_collection, events_collection>>

\* Appwrite: one iteration of the loop, which sends one update, create or delete
AppwriteLoopStep(p) ==
    /\ backend = "appwrite"
    /\ procs[p].pc = "loop"
    /\ LET me == procs[p]
           rule == RulesOf(me)[me.i]
       IN  \E existing_doc \in ExistingDocChoices(me.existing, rule.name) :
              LET step == AppwriteAssessmentStep(assessments, Held(procs), me.uid,
                                                 SubjectOf(me).id, rule, me.raw_scores,
                                                 existing_doc)
              IN  /\ assessments' = step.docs
                  /\ procs' = [procs EXCEPT ![p] =
                                  IF ~step.ok THEN Returned(me)
                                  ELSE IF me.i = Len(RulesOf(me)) THEN [me EXCEPT !.pc = "find"]
                                  ELSE [me EXCEPT !.i = me.i + 1]]
                  /\ outcome' = IF step.ok THEN outcome
                                ELSE Completed(me.uid, SubjectOf(me).id, me.raw_scores, FALSE,
                                               Raised("document not found"))
    /\ UNCHANGED <<call, ret, backend, subjects, grades>>
    /\ UNCHANGED <<users, years, terms, tasks_collection, events_collection>>

\* Appwrite: existing_grade = _find_first(grades of the subject)
AppwriteFindGradeStep(p) ==
    /\ backend = "appwrite"
    /\ procs[p].pc = "find"
    /\ \E found \in FindFirstChoices(ListBySubject(grades, procs[p].uid,
                                                   SubjectOf(procs[p]).id)) :
          procs' = [procs EXCEPT ![p] = [@ EXCEPT !.pc = "finalize", !.existing_grade = found]]
    /\ UNCHANGED <<call, ret, backend, subjects, assessments, grades, outcome>>
    /\ UNCHANGED <<users, years, terms, tasks_collection, events_collection>>

\* Appwrite: the delete, update or create of the grade document, and the return
AppwriteFinalizeStep(p) ==
    /\ backend = "appwrite"
    /\ procs[p].pc = "finalize"
    /\ LET me == procs[p]
           fin == AppwriteFinalize(grades, Held(procs), me.uid, SubjectOf(me),
                                   SubjectOf(me).data.credits, me.raw_scores,
                                   me.existing_grade)
       IN  /\ grades' = fin.docs
           /\ outcome' = Completed(me.uid, SubjectOf(me).id, me.raw_scores,
                                   me.existing_grade # {}, fin.result)
           /\ procs' = [procs EXCEPT ![p] = Returned(me)]
    /\ UNCHANGED <<call, ret, backend, subjects, assessments>>
    /\ UNCHANGED <<users, years, terms, tasks_collection, events_collection>>

\* Firestore: one iteration of the loop, which sends one set or delete
FirestoreLoopStep(p) ==
    /\ backend = "firestore"
    /\ procs[p].pc = "loop"
    /\ LET me == procs[p]
       IN  /\ assessments' = FirestoreAssessmentStep(assessments, me.uid, SubjectOf(me).id,
                                                     RulesOf(me)[me.i], me.raw_scores)
           /\ procs' = [procs EXCEPT ![p] =
                           IF me.i = Len(RulesOf(me)) THEN [me EXCEPT !.pc = "finalize"]
                           ELSE [me EXCEPT !.i = me.i + 1]]
    /\ UNCHANGED <<call, ret, backend, subjects, grades, outcome>>
    /\ UNCHANGED <<users, years, terms, tasks_collection, events_collection>>

\* Firestore: the delete or set of the grade document, and the return
FirestoreFinalizeStep(p) ==
    /\ backend = "firestore"
    /\ procs[p].pc = "finalize"
    /\ LET me == procs[p]
           fin == FirestoreFinalize(grades, me.uid, SubjectOf(me),
                                    SubjectOf(me).data.credits, me.raw_scores)
       IN  /\ grades' = fin.docs
           /\ outcome' = Completed(me.uid, SubjectOf(me).id, me.raw_scores,
                                   ListBySubject(grades, me.uid, SubjectOf(me).id) # {},
                                   fin.result)
           /\ procs' = [procs EXCEPT ![p] = Returned(me)]
    /\ UNCHANGED <<call, ret, backend, subjects, assessments>>
    /\ UNCHANGED <<users, years, terms, tasks_collection, events_collection>>

NextSteps ==
    \E p \in Procs :
       \/ StepBegin(p)
       \/ AppwriteListStep(p)
       \/ AppwriteLoopStep(p)
       \/ AppwriteFindGradeStep(p)
       \/ AppwriteFinalizeStep(p)
       \/ FirestoreLoopStep(p)
       \/ FirestoreFinalizeStep(p)

SpecSteps == InitSteps /\ [][NextSteps]_vars

(***************************************************************************)
(* app/domain/logic/grading.py: the letter and point of a percentage.      *)
(* Marks are in hundredths, as the scores above.                           *)
(***************************************************************************)
GRADE_BANDS ==
    << <<90, 100, "S", 10>>,
       <<80, 89, "A", 9>>,
       <<70, 79, "B", 8>>,
       <<60, 69, "C", 7>>,
       <<50, 59, "D", 6>>,
       <<40, 49, "E", 5>>,
       <<0, 39, "F", 4>> >>

clamp_0_100(value) == Max(0, Min(10000, value))

\* int(round(x)) of a number of hundredths: to the nearest whole number, a tie
\* to the even one
RoundToInt(hundredths) ==
    LET q == hundredths \div 100
        r == hundredths % 100
    IN  IF r < 50 THEN q
        ELSE IF r > 50 THEN q + 1
        ELSE IF q % 2 = 0 THEN q ELSE q + 1

\* Returns [letter, point]: the first band that holds the rounded marks.
grade_from_marks(marks) ==
    LET rounded == RoundToInt(clamp_0_100(marks))
        hits == {i \in 1..Len(GRADE_BANDS) :
                    GRADE_BANDS[i][1] <= rounded /\ rounded <= GRADE_BANDS[i][2]}
    IN  IF hits = {} THEN [letter |-> "F", point |-> 4]
        ELSE LET first == CHOOSE i \in hits : \A j \in hits : i <= j
             IN  [letter |-> GRADE_BANDS[first][3], point |-> GRADE_BANDS[first][4]]

InitMarks ==
    /\ \E m \in (0 - ScoreMargin)..(10000 + ScoreMargin) :
          call = [op |-> "grade_from_marks", score |-> m]
    /\ ret = Pending
    /\ NoStore

GradeFromMarks ==
    /\ call.op = "grade_from_marks"
    /\ ~ret.done
    /\ LET g == grade_from_marks(call.score)
       IN  ret' = [done |-> TRUE, letter |-> g.letter, point |-> g.point]
    /\ UNCHANGED call
    /\ StoreUnchanged

NextMarks == GradeFromMarks

SpecMarks == InitMarks /\ [][NextMarks]_vars

(***************************************************************************)
(* Scores outside [0, 100] only, given to either letter/point mapping.     *)
(***************************************************************************)
InitOutOfRange ==
    /\ InitBand \/ InitMarks
    /\ call.score < 0 \/ call.score > 10000

NextOutOfRange == GradeOfScore \/ GradeFromMarks

SpecOutOfRange == InitOutOfRange /\ [][NextOutOfRange]_vars

(***************************************************************************)
(* core/gpa.py and app/domain/logic/gpa.py.  Credits and grade points are  *)
(* whole numbers; an SGPA or CGPA is in hundredths (8.73 is 873).          *)
(* round(x, 2) rounds the double x correctly: the quotient of two whole    *)
(* numbers is the double nearest to the exact quotient, so away from a tie *)
(* the result is the nearest hundredth, and at a tie (exact quotient       *)
(* k/200, k odd) it is decided by which side of k/200 that double lies on. *)
(***************************************************************************)
\* the longest list of entries given to a GPA function
GpaMaxLen == 3

RECURSIVE Pow2Mod25(_)
Pow2Mod25(n) == IF n = 0 THEN 1 ELSE (2 * Pow2Mod25(n - 1)) % 25

RECURSIVE Pow2(_)
Pow2(n) == IF n = 0 THEN 1 ELSE 2 * Pow2(n - 1)

\* the exponent e with 2^e <= k/200 < 2^(e+1), for 0 < k/200 < 16
BinaryExponent(k) ==
    IF k >= 200 THEN CHOOSE e \in 0..3 : 200 * Pow2(e) <= k /\ k < 200 * Pow2(e + 1)
    ELSE 0 - (CHOOSE m \in 1..8 : k * Pow2(m) >= 200 /\ k * Pow2(m - 1) < 200)

\* whether the double nearest to k/200 (k odd) is above k/200: the 53-bit
\* significand is k * 2^(49-e) / 25 rounded to a whole number
DoubleIsAbove(k) == (k * Pow2Mod25(49 - BinaryExponent(k))) % 25 >= 13

\* round(num / den, 2) in hundredths for whole num >= 0 and den > 0
RoundQuotient(num, den) ==
    LET q == (100 * num) \div den
        r == (100 * num) % den
        k == 2 * q + 1
    IN  IF 2 * r < den THEN q
        ELSE IF 2 * r > den THEN q + 1
        ELSE IF k % 25 = 0 THEN (IF q % 2 = 0 THEN q ELSE q + 1)
        ELSE IF DoubleIsAbove(k) THEN q + 1 ELSE q

\* round(num / den, 2) for any whole num and den # 0
Round2Of(num, den) ==
    LET n == IF den < 0 THEN 0 - num ELSE num
        d == IF den < 0 THEN 0 - den ELSE den
    IN  IF n < 0 THEN 0 - RoundQuotient(0 - n, d) ELSE RoundQuotient(n, d)

\* round(hundredths / den, 2) in hundredths, where the numerator is a float
\* sum of float products: away from a tie the nearest hundredth; at a tie the
\* last bits of the sum decide, which tie_up stands for
RoundFloatSum(hundredths, den, tie_up) ==
    LET q == hundredths \div den
        r == hundredths % den
    IN  IF 2 * r < den THEN q
        ELSE IF 2 * r > den THEN q + 1
        ELSE IF tie_up THEN q + 1 ELSE q

\* the sums of the loop over a list of pairs: position cr holds the credits,
\* position vl the value
RECURSIVE WeightedSum(_, _, _)
WeightedSum(entries, cr, vl) ==
    IF entries = << >> THEN 0
    ELSE Head(entries)[cr] * Head(entries)[vl] + WeightedSum(Tail(entries), cr, vl)

RECURSIVE TotalCredits(_, _)
TotalCredits(entries, cr) ==
    IF entries = << >> THEN 0
    ELSE Head(entries)[cr] + TotalCredits(Tail(entries), cr)

\* calculate_sgpa as the plain mean of the grade points
Mutant_calculate_sgpa_Unweighted(course_results) ==
    IF \E i \in 1..Len(course_results) : course_results[i][1] <= 0
    THEN Raised("Course credits must be greater than 0")
    ELSE IF TotalCredits(course_results, 1) = 0
    THEN Raised("Cannot calculate SGPA with zero total credits")
    ELSE [ok |-> TRUE,
          value |-> Round2Of(TotalCredits(course_results, 2), Len(course_results))]

\* core/gpa.py calculate_sgpa over <<credits, grade_point>> pairs:
\* [ok |-> TRUE, value] or the ValueError.
calculate_sgpa(course_results) ==
    IF \E i \in 1..Len(course_results) : course_results[i][1] <= 0
    THEN Raised("Course credits must be greater than 0")
    ELSE IF TotalCredits(course_results, 1) = 0
    THEN Raised("Cannot calculate SGPA with zero total credits")
    ELSE [ok |-> TRUE,
          value |-> Round2Of(WeightedSum(course_results, 1, 2),
                             TotalCredits(course_results, 1))]

\* calculate_cgpa without the test of each entry's credits
Mutant_calculate_cgpa_NoCreditsTest(semester_results, tie_up) ==
    IF TotalCredits(semester_results, 2) <= 0
    THEN Raised("Cannot calculate CGPA with zero total credits")
    ELSE [ok |-> TRUE,
          value |-> RoundFloatSum(WeightedSum(semester_results, 2, 1),
                                  TotalCredits(semester_results, 2), tie_up)]

\* core/gpa.py calculate_cgpa over <<sgpa, credits>> pairs, sgpa in hundredths
calculate_cgpa(semester_results, tie_up) ==
    IF \E i \in 1..Len(semester_results) : semester_results[i][2] <= 0
    THEN Raised("Semester credits must be greater than 0")
    ELSE IF TotalCredits(semester_results, 2) = 0
    THEN Raised("Cannot calculate CGPA with zero total credits")
    ELSE [ok |-> TRUE,
          value |-> RoundFloatSum(WeightedSum(semester_results, 2, 1),
                                  TotalCredits(semester_results, 2), tie_up)]

\* app/domain/logic/gpa.py
CourseResult(credits, grade_point) == [credits |-> credits, grade_point |-> grade_point]

\* the list of CourseResult values as <<credits, grade_point>> pairs
CoursePairs(courses) == [i \in 1..Len(courses) |-> <<courses[i].credits, courses[i].grade_point>>]

\* app/domain/logic/gpa.py calc_sgpa: no test of the credits, 0.0 on a zero total
calc_sgpa(courses) ==
    IF TotalCredits(CoursePairs(courses), 1) = 0 THEN 0
    ELSE Round2Of(WeightedSum(CoursePairs(courses), 1, 2), TotalCredits(CoursePairs(courses), 1))

\* the inputs: lists of at most GpaMaxLen entries
GpaCredits == {-1, 0, 2, 4, 5}

GradePoints == {4, 8, 9, 10}

SemesterCredits == {-1, 0, 8, 10}

SgpaValues == {725, 850, 900, 1000}

SeqsUpTo(S, n) == UNION {[1..len -> S] : len \in 0..n}

InitGpa ==
    /\ \/ \E entries \in SeqsUpTo(GpaCredits \X GradePoints, GpaMaxLen) :
             \/ call = [op |-> "calculate_sgpa", entries |-> entries]
             \/ call = [op |-> "calc_sgpa",
                        entries |-> [i \in 1..Len(entries) |->
                                        CourseResult(entries[i][1], entries[i][2])]]
       \/ \E entries \in SeqsUpTo(SgpaValues \X SemesterCredits, GpaMaxLen) :
             call = [op |-> "calculate_cgpa", entries |-> entries]
    /\ ret = Pending
    /\ NoStore

CalculateSgpa ==
    /\ call.op = "calculate_sgpa"
    /\ ~ret.done
    /\ ret' = [done |-> TRUE, value |-> calculate_sgpa(call.entries)]
    /\ UNCHANGED call
    /\ StoreUnchanged

CalculateCgpa ==
    /\ call.op = "calculate_cgpa"
    /\ ~ret.done
    /\ \E tie_up \in BOOLEAN :
          ret' = [done |-> TRUE, value |-> calculate_cgpa(call.entries, tie_up)]
    /\ UNCHANGED call
    /\ StoreUnchanged

CalcSgpa ==
    /\ call.op = "calc_sgpa"
    /\ ~ret.done
    /\ ret' = [done |-> TRUE, value |-> [ok |-> TRUE, value |-> calc_sgpa(call.entries)]]
    /\ UNCHANGED call
    /\ StoreUnchanged

NextGpa == CalculateSgpa \/ CalculateCgpa \/ CalcSgpa

SpecGpa == InitGpa /\ [][NextGpa]_vars

(***************************************************************************)
(* The same input given twice in succession: evaluate_subject called again *)
(* with the arguments of the call before, and save_assessments_and_grade   *)
(* called again with the submission of the call before.  `call` then holds *)
(* what the store held and what was returned before the second call.       *)
(***************************************************************************)
InitRepeat ==
    \/ /\ \E credits \in CreditChoices :
             \E raw_scores \in StoreInputsOf[credits] :
                call = [op |-> "evaluate_subject", credits |-> credits,
                        raw_scores |-> raw_scores]
       /\ ret = Pending
       /\ NoStore
    \/ InitStore

EvaluateAgain ==
    /\ call.op = "evaluate_subject"
    /\ ret.done
    /\ "first" \notin DOMAIN ret
    /\ ret' = [done |-> TRUE, value |-> evaluate_subject(call.credits, call.raw_scores),
               first |-> ret.value]
    /\ UNCHANGED call
    /\ StoreUnchanged

\* what the second call is compared with
Before == [op |-> "repeat", assessments |-> assessments, grades |-> grades,
           result |-> outcome.result]

AppwriteSaveAgain ==
    /\ backend = "appwrite"
    /\ call.op = "none"
    /\ outcome.done
    /\ LET r == Appwrite_save_assessments_and_grade(subjects, assessments, grades,
                                                    outcome.uid, outcome.subject_id,
                                                    outcome.raw_scores)
       IN  /\ assessments' = r.assessments
           /\ grades' = r.grades
           /\ outcome' = Completed(outcome.uid, outcome.subject_id, outcome.raw_scores,
                                   ListBySubject(grades, outcome.uid, outcome.subject_id) # {},
                                   r.result)
    /\ call' = Before
    /\ UNCHANGED <<ret, backend, subjects, procs>>
    /\ UNCHANGED <<users, years, terms, tasks_collection, events_collection>>

FirestoreSaveAgain ==
    /\ backend = "firestore"
    /\ call.op = "none"
    /\ outcome.done
    /\ LET r == Firestore_save_assessments_and_grade(subjects, assessments, grades,
                                                     outcome.uid, outcome.subject_id,
                                                     outcome.raw_scores)
       IN  /\ assessments' = r.assessments
           /\ grades' = r.grades
           /\ outcome' = Completed(outcome.uid, outcome.subject_id, outcome.raw_scores,
                                   ListBySubject(grades, outcome.uid, outcome.subject_id) # {},
                                   r.result)
    /\ call' = Before
    /\ UNCHANGED <<ret, backend, subjects, procs>>
    /\ UNCHANGED <<users, years, terms, tasks_collection, events_collection>>

\* a call that is not compared with the one before
AppwriteSaveFirst ==
    /\ call.op = "none"
    /\ AppwriteSave

FirestoreSaveFirst ==
    /\ call.op = "none"
    /\ FirestoreSave

NextRepeat ==
    \/ EvaluateSubject
    \/ EvaluateAgain
    \/ AppwriteSaveFirst
    \/ FirestoreSaveFirst
    \/ AppwriteSaveAgain
    \/ FirestoreSaveAgain

SpecRepeat == InitRepeat /\ [][NextRepeat]_vars

(***************************************************************************)
(* ui/views/dashboard_view.py: the timetable of the dashboard.  A time     *)
(* string is the sequence of its characters, compared as Python compares   *)
(* strings: character by character, by code point.  A date is the number   *)
(* of days after today (midnight of now's date), and `now` is its weekday  *)
(* (Monday is 0) and its time of day.                                      *)
(***************************************************************************)
\* the slots of all subjects of a timetable
MaxSlots == 2

DAY_NAMES == <<"Mon", "Tue", "Wed", "Thu", "Fri", "Sat", "Sun">>

\* ord() of the characters of a time string
CodePoint == ("0" :> 48 @@ "1" :> 49 @@ "2" :> 50 @@ "3" :> 51 @@ "4" :> 52 @@ "5" :> 53
              @@ "6" :> 54 @@ "7" :> 55 @@ "8" :> 56 @@ "9" :> 57 @@ ":" :> 58)

\* int() of a string of digits
RECURSIVE IntOf(_)
IntOf(digits) ==
    IF digits = << >> THEN 0
    ELSE 10 * IntOf(SubSeq(digits, 1, Len(digits) - 1)) + (CodePoint[digits[Len(digits)]] - 48)

\* value.split(":", maxsplit=1), then int(hour) * 60 + int(minute)
_to_minutes(value) ==
    LET colon == CHOOSE i \in 1..Len(value) :
                    value[i] = ":" /\ \A j \in 1..(i - 1) : value[j] # ":"
    IN  IntOf(SubSeq(value, 1, colon - 1)) * 60 + IntOf(SubSeq(value, colon + 1, Len(value)))

\* a < b for two strings
RECURSIVE StrLess(_, _)
StrLess(a, b) ==
    IF b = << >> THEN FALSE
    ELSE IF a = << >> THEN TRUE
    ELSE IF Head(a) # Head(b) THEN CodePoint[Head(a)] < CodePoint[Head(b)]
    ELSE StrLess(Tail(a), Tail(b))

\* list.sort(key=lambda row: row["start_time"]): stable, ascending by the string
RECURSIVE SortByStartTime(_)
SortByStartTime(rows) ==
    IF rows = << >> THEN << >>
    ELSE LET sorted == SortByStartTime(SubSeq(rows, 1, Len(rows) - 1))
             last == rows[Len(rows)]
             \* the rows that stay in front: all up to the last one not greater
             keep == {i \in 1..Len(sorted) : ~StrLess(last.start_time, sorted[i].start_time)}
             at == IF keep = {} THEN 0 ELSE CHOOSE i \in keep : \A j \in keep : j <= i
         IN  SubSeq(sorted, 1, at) \o <<last>> \o SubSeq(sorted, at + 1, Len(sorted))

\* the rows one subject appends for a day, in the order of its slots
RECURSIVE SubjectRows(_, _, _)
SubjectRows(subject, slots, day) ==
    IF slots = << >> THEN << >>
    ELSE (IF Head(slots).day = day
          THEN << [subject_name |-> subject.name, location |-> subject.location,
                   start_time |-> Head(slots).start_time,
                   end_time |-> Head(slots).end_time] >>
          ELSE << >>)
         \o SubjectRows(subject, Tail(slots), day)

\* the rows appended for a day, subject by subject
RECURSIVE DayRows(_, _)
DayRows(subjs, day) ==
    IF subjs = << >> THEN << >>
    ELSE SubjectRows(Head(subjs), Head(subjs).schedule_slots, day) \o DayRows(Tail(subjs), day)

\* a slot whose day is no key of the mapping is skipped
_schedule_map(subjs) ==
    [day \in Range(DAY_NAMES) |-> SortByStartTime(DayRows(subjs, day))]

\* date_obj.weekday() of today + offset days, as a key
_day_from_date(now, offset) == DAY_NAMES[((now.weekday + offset) % 7) + 1]

RECURSIVE MaxOf(_)
MaxOf(numbers) ==
    IF Len(numbers) = 1 THEN Head(numbers) ELSE Max(Head(numbers), MaxOf(Tail(numbers)))

\* _pick_schedule_day that stays on today only until today's first slot ends
Mutant_pick_schedule_day_EarliestEnd(now, schedule_by_day) ==
    LET today_slots == schedule_by_day[_day_from_date(now, 0)]
        latest_end == 0 - MaxOf([i \in 1..Len(today_slots) |->
                                    0 - _to_minutes(today_slots[i].end_time)])
        now_minutes == now.hour * 60 + now.minute
        probes == {offset \in 1..7 : schedule_by_day[_day_from_date(now, offset)] # << >>}
    IN  IF today_slots # << >> /\ now_minutes <= latest_end THEN 0
        ELSE IF probes # {} THEN CHOOSE offset \in probes : \A other \in probes : offset <= other
        ELSE 0

\* Returns the resolved day as the number of days after today.
_pick_schedule_day(now, schedule_by_day) ==
    LET today_slots == schedule_by_day[_day_from_date(now, 0)]
        latest_end == MaxOf([i \in 1..Len(today_slots) |-> _to_minutes(today_slots[i].end_time)])
        now_minutes == now.hour * 60 + now.minute
        probes == {offset \in 1..7 : schedule_by_day[_day_from_date(now, offset)] # << >>}
    IN  IF today_slots # << >> /\ now_minutes <= latest_end THEN 0
        ELSE IF probes # {} THEN CHOOSE offset \in probes : \A other \in probes : offset <= other
        ELSE 0

(***************************************************************************)
(* The due-soon list and the upcoming events of the dashboard.  A          *)
(* timestamp is [kind, day, minute, micro]: kind "datetime" with the day   *)
(* counted from today, the minute of the day and the microseconds within   *)
(* the minute; kind "none" for an absent value; kind "str" for a text      *)
(* value.  All datetimes are of one time zone.                             *)
(***************************************************************************)
\* the tasks and events of one dashboard
MaxItems == 2

datetime(day, minute, micro) ==
    [kind |-> "datetime", day |-> day, minute |-> minute, micro |-> micro]

None == [kind |-> "none", day |-> 0, minute |-> 0, micro |-> 0]

Text == [kind |-> "str", day |-> 0, minute |-> 0, micro |-> 0]

\* datetime.max, the sort key of a row without a timestamp
DatetimeMax == datetime(9999, 1439, 59999999)

\* a < b for two datetimes
Earlier(a, b) ==
    \/ a.day < b.day
    \/ a.day = b.day /\ a.minute < b.minute
    \/ a.day = b.day /\ a.minute = b.minute /\ a.micro < b.micro

\* the positions of a list in the order a stable ascending sort by `keys` (a
\* datetime for each position) puts them
RECURSIVE SortedPositions(_)
SortedPositions(keys) ==
    IF keys = << >> THEN << >>
    ELSE LET sorted == SortedPositions(SubSeq(keys, 1, Len(keys) - 1))
             last == Len(keys)
             keep == {i \in 1..Len(sorted) : ~Earlier(keys[last], keys[sorted[i]])}
             at == IF keep = {} THEN 0 ELSE CHOOSE i \in keep : \A j \in keep : j <= i
         IN  SubSeq(sorted, 1, at) \o <<last>> \o SubSeq(sorted, at + 1, Len(sorted))

\* list.sort(key=lambda row: row.get(field) or datetime.max) over rows whose
\* keys are datetimes or missing
SortByKey(rows, field) ==
    LET keys == [i \in 1..Len(rows) |->
                    IF rows[i][field].kind = "none" THEN DatetimeMax ELSE rows[i][field]]
    IN  [i \in 1..Len(rows) |-> rows[SortedPositions(keys)[i]]]

\* FirestoreService.list_tasks / list_events: the rows sorted by the timestamp,
\* a missing one last.  Comparing a text key with a datetime key is a
\* TypeError, which any sort of two or more rows of both kinds runs into.
ListSorted(rows, field) ==
    IF /\ Len(rows) >= 2
       /\ \E i \in 1..Len(rows) : rows[i][field].kind = "str"
       /\ \E i \in 1..Len(rows) : rows[i][field].kind # "str"
    THEN Raised("TypeError")
    ELSE [ok |-> TRUE, rows |-> SortByKey(rows, field)]

\* the rows of a list at the positions `wanted`, in the order of the list
RECURSIVE SelectRows(_, _)
SelectRows(rows, wanted) ==
    IF rows = << >> THEN << >>
    ELSE SelectRows(SubSeq(rows, 1, Len(rows) - 1), wanted)
         \o (IF Len(rows) \in wanted THEN <<rows[Len(rows)]>> ELSE << >>)

\* hasattr(value, "replace"): a datetime has the method, and so has a str
HasReplace(value) == value.kind \in {"datetime", "str"}

\* now as a datetime of today
NowTimestamp(now) == datetime(0, now.hour * 60 + now.minute, now.second * 1000000)

\* DueTasks with the window closed at the end of today
Mutant_DueTasks_TodayOnly(tasks) ==
    LET start_today == datetime(0, 0, 0)
        end_today == datetime(0, 1439, 59999999)
        InWindow(task) == /\ HasReplace(task.due_at)
                          /\ ~Earlier(task.due_at, start_today)
                          /\ ~Earlier(end_today, task.due_at)
    IN  IF \E i \in 1..Len(tasks) : tasks[i].due_at.kind = "str"
        THEN Raised("TypeError")
        ELSE [ok |-> TRUE,
              rows |-> SortByKey(SelectRows(tasks, {i \in 1..Len(tasks) : InWindow(tasks[i])}),
                                 "due_at")]

\* build_dashboard_view from `start_today = ...` to the sort of due_tasks
DueTasks(tasks) ==
    LET start_today == datetime(0, 0, 0)
        \* start_today + 2 days - 1 microsecond
        end_tomorrow == datetime(1, 1439, 59999999)
        InWindow(task) == /\ HasReplace(task.due_at)
                          /\ ~Earlier(task.due_at, start_today)
                          /\ ~Earlier(end_tomorrow, task.due_at)
    IN  IF \E i \in 1..Len(tasks) : tasks[i].due_at.kind = "str"
        THEN Raised("TypeError")
        ELSE [ok |-> TRUE, rows |-> SortByKey(SelectRows(tasks, {i \in 1..Len(tasks) : InWindow(tasks[i])}),
                                         "due_at")]

\* build_dashboard_view: the upcoming events, the first three in ascending order
UpcomingEvents(now, events) ==
    LET NotBeforeNow(event) == /\ HasReplace(event.starts_at)
                               /\ ~Earlier(event.starts_at, NowTimestamp(now))
        upcoming == SortByKey(SelectRows(events, {i \in 1..Len(events) :
                                                     NotBeforeNow(events[i])}),
                              "starts_at")
    IN  IF \E i \in 1..Len(events) : events[i].starts_at.kind = "str"
        THEN Raised("TypeError")
        ELSE [ok |-> TRUE, rows |-> SubSeq(upcoming, 1, Min(3, Len(upcoming)))]

\* the inputs of the dashboard: time strings as the subjects form stores them
\* (_parse_schedule_slots keeps the text it is given)
Time_9_00 == <<"9", ":", "0", "0">>

Time_10_00 == <<"1", "0", ":", "0", "0">>

Time_10_30 == <<"1", "0", ":", "3", "0">>

Time_11_00 == <<"1", "1", ":", "0", "0">>

SlotTimes == {<<Time_9_00, Time_10_00>>, <<Time_10_00, Time_11_00>>, <<Time_10_30, Time_11_00>>}

\* the day of a slot as typed: three weekday keys and one text that is no key
SlotDays == {"Mon", "Tue", "Sun", "Monday"}

SlotChoices ==
    {[day |-> day, start_time |-> times[1], end_time |-> times[2]] :
        day \in SlotDays, times \in SlotTimes}

\* the slots of `entries` that belong to subject number n, in their order
RECURSIVE SlotsOfSubject(_, _)
SlotsOfSubject(entries, n) ==
    IF entries = << >> THEN << >>
    ELSE (IF Head(entries)[1] = n THEN <<Head(entries)[2]>> ELSE << >>)
         \o SlotsOfSubject(Tail(entries), n)

\* two subjects that share the slots of `entries`
SubjectsWith(entries) ==
    << [name |-> "Maths", location |-> "R1", schedule_slots |-> SlotsOfSubject(entries, 1)],
       [name |-> "Physics", location |-> "R2", schedule_slots |-> SlotsOfSubject(entries, 2)] >>

Timetables == {SubjectsWith(entries) : entries \in SeqsUpTo({1, 2} \X SlotChoices, MaxSlots)}

ScheduleNows ==
    {[weekday |-> weekday, hour |-> time[1], minute |-> time[2], second |-> time[3]] :
        weekday \in {0, 2, 6},
        time \in {<<10, 15, 0>>, <<11, 0, 0>>, <<11, 0, 30>>, <<11, 30, 0>>}}

\* the timestamps of the tasks and events: the last instant of yesterday, the
\* start of today, the start and the last microsecond of tomorrow, the start of
\* the day after and one minute past the end of tomorrow, none, and a text
Timestamps ==
    {datetime(-1, 1439, 59999999), datetime(0, 0, 0), datetime(1, 0, 0),
     datetime(1, 1439, 59999999), datetime(2, 0, 0), datetime(2, 0, 59999999),
     None, Text}

\* the tasks (or events) among `entries`, each with its position as id
TimedRows(entries, kind, field) ==
    LET at == {i \in 1..Len(entries) : entries[i][1] = kind}
    IN  SelectRows([i \in 1..Len(entries) |-> (field :> entries[i][2]) @@ [id |-> i]], at)

InitSchedule ==
    /\ \E now \in ScheduleNows, subjs \in Timetables :
          call = [op |-> "build_dashboard_view", now |-> now, subjects |-> subjs,
                  tasks |-> << >>, events |-> << >>]
    /\ ret = Pending
    /\ NoStore

InitDueSoon ==
    /\ \E entries \in SeqsUpTo({"task", "event"} \X Timestamps, MaxItems) :
          \E hour \in {0, 12}, op \in {"build_dashboard_view", "dashboard_view"} :
             call = [op |-> op,
                     now |-> [weekday |-> 0, hour |-> hour, minute |-> 0, second |-> 0],
                     subjects |-> << >>,
                     tasks |-> TimedRows(entries, "task", "due_at"),
                     events |-> TimedRows(entries, "event", "starts_at")]
    /\ ret = Pending
    /\ NoStore

\* what the view works with after the load: the listings of the service, or
\* empty lists when the load raised and nothing is cached
Loaded(subjs, tasks, events) ==
    LET listed_tasks == ListSorted(tasks, "due_at")
        listed_events == ListSorted(events, "starts_at")
    IN  IF listed_tasks.ok /\ listed_events.ok
        THEN [subjects |-> subjs, tasks |-> listed_tasks.rows, events |-> listed_events.rows]
        ELSE [subjects |-> << >>, tasks |-> << >>, events |-> << >>]

\* build_dashboard_view up to the lists it shows: [ok |-> TRUE, ...] or the error
Dashboard(now, subjs, tasks, events) ==
    LET loaded == Loaded(subjs, tasks, events)
        schedule_by_day == _schedule_map(loaded.subjects)
        target_day == _pick_schedule_day(now, schedule_by_day)
        due_tasks == DueTasks(loaded.tasks)
        upcoming_events == UpcomingEvents(now, loaded.events)
    IN  IF ~due_tasks.ok THEN due_tasks
        ELSE IF ~upcoming_events.ok THEN upcoming_events
        ELSE [ok |-> TRUE, schedule_by_day |-> schedule_by_day, target_day |-> target_day,
              target_slots |-> schedule_by_day[_day_from_date(now, target_day)],
              due_tasks |-> due_tasks.rows, upcoming_events |-> upcoming_events.rows]

BuildDashboard ==
    /\ call.op = "build_dashboard_view"
    /\ ~ret.done
    /\ ret' = [done |-> TRUE,
               value |-> Dashboard(call.now, call.subjects, call.tasks, call.events)]
    /\ UNCHANGED call
    /\ StoreUnchanged

(***************************************************************************)
(* app/ui/app.py: the dashboard of the desktop application, whose tasks    *)
(* come from app/services/storage.py with due_at stored as text.           *)
(***************************************************************************)
\* Storage.list_tasks: ORDER BY t.due_at over the text column; ISO texts of one
\* format are in the order of their instants, a text that starts with a letter
\* comes after them and NULL comes first
StorageListTasks(tasks) ==
    LET keys == [i \in 1..Len(tasks) |->
                    IF tasks[i].due_at.kind = "none" THEN datetime(-9999, 0, 0)
                    ELSE IF tasks[i].due_at.kind = "str" THEN DatetimeMax
                    ELSE tasks[i].due_at]
    IN  [i \in 1..Len(tasks) |-> tasks[SortedPositions(keys)[i]]]

\* the subjects of today's weekday, or of the next weekday that has any
AppTodaySubjects(now, subjs) ==
    LET on(offset) == SelectRows(subjs, {i \in 1..Len(subjs) :
                                            subjs[i].day_of_week = _day_from_date(now, offset)})
        probes == {offset \in 1..7 : on(offset) # << >>}
    IN  IF on(0) # << >> THEN on(0)
        ELSE IF probes # {} THEN on(CHOOSE offset \in probes : \A other \in probes : offset <= other)
        ELSE << >>

\* AcademaSyncApp.dashboard_view: datetime.fromisoformat(t["due_at"]).date() in
\* (today, tomorrow); a value that does not parse is skipped
AppDueSoon(tasks) ==
    SelectRows(tasks, {i \in 1..Len(tasks) :
                          tasks[i].due_at.kind = "datetime" /\ tasks[i].due_at.day \in {0, 1}})

AppDashboardView ==
    /\ call.op = "dashboard_view"
    /\ ~ret.done
    /\ ret' = [done |-> TRUE,
               value |-> [ok |-> TRUE,
                          today_subjects |-> AppTodaySubjects(call.now, call.subjects),
                          due_tasks |-> AppDueSoon(StorageListTasks(call.tasks))]]
    /\ UNCHANGED call
    /\ StoreUnchanged

NextSchedule == BuildDashboard

SpecSchedule == InitSchedule /\ [][NextSchedule]_vars

NextDueSoon == BuildDashboard \/ AppDashboardView

SpecDueSoon == InitDueSoon /\ [][NextDueSoon]_vars

(***************************************************************************)
(* app/domain/logic/gpa.py calc_cgpa: one pair of sums over the courses of *)
(* all semesters.  The sums are of whole numbers, which a double holds     *)
(* exactly, so the order of the additions does not change them.            *)
(***************************************************************************)
\* the sums `weighted` and `total_credits` after the nested loops
RECURSIVE CgpaSums(_)
CgpaSums(semester_courses) ==
    IF semester_courses = << >> THEN [weighted |-> 0, total_credits |-> 0]
    ELSE LET sem == CoursePairs(Head(semester_courses))
             rest == CgpaSums(Tail(semester_courses))
         IN  [weighted |-> WeightedSum(sem, 1, 2) + rest.weighted,
              total_credits |-> TotalCredits(sem, 1) + rest.total_credits]

\* calc_cgpa as the plain mean of the semesters' SGPAs
Mutant_calc_cgpa_MeanOfSgpas(semester_courses) ==
    IF CgpaSums(semester_courses).total_credits = 0 THEN 0
    ELSE Round2Of(TotalCredits([i \in 1..Len(semester_courses) |->
                                   <<calc_sgpa(semester_courses[i])>>], 1),
                  100 * Len(semester_courses))

\* calc_cgpa in hundredths: 0.0 on a zero total
calc_cgpa(semester_courses) ==
    LET sums == CgpaSums(semester_courses)
    IN  IF sums.total_credits = 0 THEN 0
        ELSE Round2Of(sums.weighted, sums.total_credits)

\* the courses the semesters are made of
CgpaCourses ==
    {CourseResult(4, 8), CourseResult(4, 9), CourseResult(5, 10), CourseResult(2, 8),
     CourseResult(0, 9)}

\* the list `entries` cut into semesters after the positions `cuts`
RECURSIVE SplitAt(_, _, _)
SplitAt(entries, cuts, from) ==
    IF from > Len(entries) THEN << >>
    ELSE LET upto == IF \E c \in cuts : c >= from
                     THEN CHOOSE c \in cuts : c >= from /\ \A d \in cuts : d >= from => c <= d
                     ELSE Len(entries)
         IN  << SubSeq(entries, from, upto) >> \o SplitAt(entries, cuts, upto + 1)

\* every list of at most GpaMaxLen + 1 courses, split into semesters in every
\* way, with or without an empty semester in front
InitCgpa ==
    /\ \E entries \in SeqsUpTo(CgpaCourses, GpaMaxLen + 1) :
          \E cuts \in SUBSET (1..(Len(entries) - 1)), empty_first \in BOOLEAN :
             call = [op |-> "calc_cgpa",
                     entries |-> (IF empty_first THEN << << >> >> ELSE << >>)
                                 \o SplitAt(entries, cuts, 1)]
    /\ ret = Pending
    /\ NoStore

CalcCgpa ==
    /\ call.op = "calc_cgpa"
    /\ ~ret.done
    /\ ret' = [done |-> TRUE, value |-> calc_cgpa(call.entries)]
    /\ UNCHANGED call
    /\ StoreUnchanged

NextCgpa == CalcCgpa

SpecCgpa == InitCgpa /\ [][NextCgpa]_vars

(***************************************************************************)
(* app/domain/logic/grading.py: the final percentage of a subject.  Marks  *)
(* and maxima are whole numbers; a percentage is the exact fraction        *)
(* [num, den] in lowest terms (den > 0) that the code's double              *)
(* approximates.                                                           *)
(***************************************************************************)
\* the longest list of theory components given to calc_subject_final
MaxComponents == 2

RECURSIVE Gcd(_, _)
Gcd(a, b) == IF b = 0 THEN a ELSE Gcd(b, a % b)

\* num / den (den > 0) in lowest terms
Frac(num, den) ==
    LET g == Gcd(IF num < 0 THEN 0 - num ELSE num, den)
    IN  [num |-> num \div g, den |-> den \div g]

\* clamp_0_100 of a fraction
ClampFrac(f) ==
    IF f.num < 0 THEN Frac(0, 1)
    ELSE IF f.num > 100 * f.den THEN Frac(100, 1)
    ELSE f

\* calc_weighted_total over <<score, max_marks>> pairs
calc_weighted_total(components) ==
    LET obtained == WeightedSum([i \in 1..Len(components) |-> <<1, components[i][1]>>], 1, 2)
        maximum == TotalCredits(components, 2)
    IN  IF maximum <= 0 THEN Frac(0, 1)
        ELSE ClampFrac(Frac(100 * obtained, maximum))

\* lab_marks is a set: empty for None, else the set of the one number given
NoLabMarks == {}

LabValue(lab_marks) == CHOOSE m \in lab_marks : TRUE

\* calc_subject_final with the two weights exchanged
Mutant_calc_subject_final_WeightsSwapped(credits, theory_components, lab_marks, lab_max) ==
    LET theory_pct == calc_weighted_total(theory_components)
    IN  IF credits \in {2, 4} THEN [ok |-> TRUE, value |-> theory_pct]
        ELSE IF credits = 5
        THEN IF lab_marks = NoLabMarks \/ lab_max <= 0
             THEN Raised("5-credit subjects require lab_marks and positive lab_max")
             ELSE LET lab_pct == ClampFrac(Frac(100 * LabValue(lab_marks), lab_max))
                  IN  [ok |-> TRUE,
                       value |-> ClampFrac(Frac(theory_pct.num * lab_pct.den
                                                + 4 * lab_pct.num * theory_pct.den,
                                                5 * theory_pct.den * lab_pct.den))]
        ELSE Raised("Unsupported credits; expected 2, 4, or 5")

\* calc_subject_final: [ok |-> TRUE, value] or the ValueError
\* (theory_pct * 0.80 + lab_pct * 0.20 is (4 * theory_pct + lab_pct) / 5)
calc_subject_final(credits, theory_components, lab_marks, lab_max) ==
    LET theory_pct == calc_weighted_total(theory_components)
    IN  IF credits \in {2, 4} THEN [ok |-> TRUE, value |-> theory_pct]
        ELSE IF credits = 5
        THEN IF lab_marks = NoLabMarks \/ lab_max <= 0
             THEN Raised("5-credit subjects require lab_marks and positive lab_max")
             ELSE LET lab_pct == ClampFrac(Frac(100 * LabValue(lab_marks), lab_max))
                  IN  [ok |-> TRUE,
                       value |-> ClampFrac(Frac(4 * theory_pct.num * lab_pct.den
                                                + lab_pct.num * theory_pct.den,
                                                5 * theory_pct.den * lab_pct.den))]
        ELSE Raised("Unsupported credits; expected 2, 4, or 5")

\* the <<score, max_marks>> pairs, lab marks and lab maxima tried
TheoryComponents == {<<40, 50>>, <<88, 100>>, <<-5, 10>>, <<60, 50>>, <<5, 0>>, <<5, -10>>}

LabMarks == {NoLabMarks, {-1}, {18}, {25}}

LabMaxima == {20, 0, -5}

InitFinal ==
    /\ \E credits \in CreditChoices, comps \in SeqsUpTo(TheoryComponents, MaxComponents),
          lab_marks \in LabMarks, lab_max \in LabMaxima :
          call = [op |-> "calc_subject_final", credits |-> credits,
                  theory_components |-> comps, lab_marks |-> lab_marks, lab_max |-> lab_max]
    /\ ret = Pending
    /\ NoStore

CalcSubjectFinal ==
    /\ call.op = "calc_subject_final"
    /\ ~ret.done
    /\ ret' = [done |-> TRUE,
               value |-> calc_subject_final(call.credits, call.theory_components,
                                            call.lab_marks, call.lab_max)]
    /\ UNCHANGED call
    /\ StoreUnchanged

NextFinal == CalcSubjectFinal

SpecFinal == InitFinal /\ [][NextFinal]_vars

(***************************************************************************)
(* The services with terms.  A user's profile document names the active    *)
(* year and term; a subject document carries the year and term that were   *)
(* active when it was created.  In Firestore every document lies under a   *)
(* path: a subject under its term (the term_id of its record), a grade     *)
(* under the term at document(subject_id) (id <<subject_id, term_id>>), an *)
(* assessment under its subject at document(name) (id <<name,              *)
(* subject_id>>).  An absent value (None) is the empty set and a present   *)
(* one the set of that value.  The state after construction is the state   *)
(* after each user's save_onboarding: one year with two terms, the first   *)
(* of them active, sgpa None (total_credits 0 stands for the attribute     *)
(* Firestore leaves out: `not credits` holds of both).                     *)
(***************************************************************************)
YearDoc(uid, label) == [user_id |-> uid, label |-> label]

TermDoc(uid, year_id, name) ==
    [user_id |-> uid, year_id |-> year_id, name |-> name, sgpa |-> {}, total_credits |-> 0]

Profile(year_id, term_id) == [active_year_id |-> year_id, active_term_id |-> term_id, cgpa |-> {}]

\* save_onboarding(uid, label, ..., terms = [Sem 1, Sem 2]) as the n-th onboarding
Onboarded(uid, n, label) ==
    [users |-> (uid :> Profile(<<"year", n>>, <<"term", 2 * n - 1>>)),
     years |-> (<<"year", n>> :> YearDoc(uid, label)),
     terms |-> (<<"term", 2 * n - 1>> :> TermDoc(uid, <<"year", n>>, "Sem 1"))
               @@ (<<"term", 2 * n>> :> TermDoc(uid, <<"year", n>>, "Sem 2"))]

\* AppwriteService._active_term: the term document, as a set ({} when the
\* profile names none or the named one is not found, which raises)
_active_term(uid) ==
    IF uid \notin DOMAIN users THEN {}
    ELSE Listing(terms, {t \in DOMAIN terms :
                            /\ t = users[uid].active_term_id
                            /\ terms[t].year_id = users[uid].active_year_id
                            /\ terms[t].user_id = uid})

\* FirestoreService._active_term_ref: the path of the term the profile names
_active_term_ref(uid) ==
    IF uid \notin DOMAIN users THEN {} ELSE {users[uid].active_term_id}

\* the id of the active term as the service in use resolves it, as a set
ActiveTermId(uid) ==
    IF backend = "appwrite" THEN {t.id : t \in _active_term(uid)} ELSE _active_term_ref(uid)

\* every subject id the store still knows: of a subject document, or named by
\* a grade or assessment document (ID.unique() and Firestore's automatic ids
\* never give an id out twice)
KnownSubjectIds ==
    DOMAIN subjects
    \cup {grades[g].subject_id : g \in DOMAIN grades}
    \cup {assessments[a].subject_id : a \in DOMAIN assessments}

SubjectDoc(uid, term, name, credits) ==
    [user_id |-> uid, year_id |-> term.data.year_id, term_id |-> term.id,
     name |-> name, credits |-> credits]

\* create_subject of either service: [ok, subjects, id]
create_subject(uid, name, credits) ==
    LET active == ActiveTermId(uid)
    IN  IF active = {} THEN [ok |-> FALSE, subjects |-> subjects]
        ELSE LET term_id == CHOOSE t \in active : TRUE
                 term == [id |-> term_id, data |-> terms[term_id]]
             IN  [ok |-> TRUE,
                  subjects |-> _create_document(subjects, KnownSubjectIds, "subject",
                                                SubjectDoc(uid, term, name, credits))]

\* what an operation of the services with terms leaves behind in `outcome`:
\* its name and arguments and what it returned or raised
Done(op, uid, args, result) ==
    [done |-> TRUE, op |-> op, uid |-> uid, args |-> args, result |-> result]

\* the subject names in use: of a subject document or of a grade document
KnownSubjectNames ==
    {subjects[s].name : s \in DOMAIN subjects}
    \cup {grades[g].subject_name : g \in DOMAIN grades}

\* the creation requests tried, as <<name, credits>>: through the API, and on
\* the subjects screen, whose credits come from the dropdown's options 2, 4, 5.
\* No name is given to a second subject.
ApiRequests == {<<"Maths", 0>>, <<"Maths", 2>>, <<"Maths", 3>>, <<"Physics", 4>>}

ScreenRequests == {<<"Maths", 2>>, <<"Physics", 4>>}

\* set_active_term of either service: the update of the profile document
\* (the year and the term are those of one of the user's term documents)
SetActiveTerm ==
    /\ \E uid \in DOMAIN users, t \in DOMAIN terms :
          /\ terms[t].user_id = uid
          /\ users' = [users EXCEPT ![uid] = [@ EXCEPT !.active_year_id = terms[t].year_id,
                                                       !.active_term_id = t]]
          /\ outcome' = Done("set_active_term", uid, <<terms[t].year_id, t>>, [ok |-> TRUE])
    /\ UNCHANGED <<call, ret, backend, subjects, assessments, grades, procs,
                   years, terms, tasks_collection, events_collection>>

\* a subject-creation request through the backend API (main.py _create_subject
\* and app.py SubjectPayload both ask for an integer credits >= 1)
CreateSubjectByApi ==
    /\ \E uid \in DOMAIN users, request \in ApiRequests :
          /\ request[1] \notin KnownSubjectNames
          /\ IF request[2] < 1
             THEN /\ subjects' = subjects
                  /\ outcome' = Done("create_subject", uid, <<"api", request[2]>>,
                                     Raised("credits must be an integer >= 1"))
             ELSE LET r == create_subject(uid, request[1], request[2])
                  IN  /\ subjects' = r.subjects
                      /\ outcome' = Done("create_subject", uid, <<"api", request[2]>>,
                                         [ok |-> r.ok])
    /\ UNCHANGED <<call, ret, backend, assessments, grades, procs,
                   users, years, terms, tasks_collection, events_collection>>

\* a subject added on the subjects screen (the screens use FirestoreService)
CreateSubjectByScreen ==
    /\ backend = "firestore"
    /\ \E uid \in DOMAIN users, request \in ScreenRequests :
          /\ request[1] \notin KnownSubjectNames
          /\ LET r == create_subject(uid, request[1], request[2])
             IN  /\ subjects' = r.subjects
                 /\ outcome' = Done("create_subject", uid, <<"screen", request[2]>>,
                                    [ok |-> r.ok])
    /\ UNCHANGED <<call, ret, backend, assessments, grades, procs,
                   users, years, terms, tasks_collection, events_collection>>

\* delete_subject: Appwrite deletes the subject document it finds by id and
\* user; Firestore deletes document(subject_id) under the active term.  Either
\* way one subject document at most is deleted, and nothing else.
delete_subject(uid, subject_id) ==
    IF backend = "appwrite"
    THEN IF get_subject(subjects, uid, subject_id) = {} THEN subjects
         ELSE Without(subjects, subject_id)
    ELSE IF /\ subject_id \in DOMAIN subjects
            /\ subjects[subject_id].user_id = uid
            /\ subjects[subject_id].term_id \in _active_term_ref(uid)
         THEN Without(subjects, subject_id)
         ELSE subjects

\* a subject id that no document has
UnknownSubject == <<"subject", 0>>

DeleteSubject ==
    /\ \E uid \in DOMAIN users, subject_id \in DOMAIN subjects \cup {UnknownSubject} :
          /\ subjects' = delete_subject(uid, subject_id)
          /\ outcome' = Done("delete_subject", uid, <<subject_id>>, [ok |-> TRUE])
    /\ UNCHANGED <<call, ret, backend, assessments, grades, procs,
                   users, years, terms, tasks_collection, events_collection>>

\* the Firestore documents under one path, by document name, and a
\* collection with the documents under one path replaced
UnderPath(docs, path) ==
    [i \in {<<d[1], 0>> : d \in {e \in DOMAIN docs : e[2] = path}} |-> docs[<<i[1], path>>]]

OnPath(docs, path, sub) ==
    [d \in {e \in DOMAIN docs : e[2] # path} \cup {<<i[1], path>> : i \in DOMAIN sub} |->
        IF d[2] = path THEN sub[<<d[1], 0>>] ELSE docs[d]]

\* the subject documents under a term's path
SubjectsOfTerm(term_id) ==
    [s \in {x \in DOMAIN subjects : subjects[x].term_id = term_id} |-> subjects[s]]

\* save_assessments_and_grade of the service in use: [assessments, grades, result]
save_assessments_and_grade(uid, subject_id, raw_scores) ==
    IF backend = "appwrite"
    THEN Appwrite_save_assessments_and_grade(subjects, assessments, grades,
                                             uid, subject_id, raw_scores)
    ELSE IF _active_term_ref(uid) = {}
    THEN [assessments |-> assessments, grades |-> grades,
          result |-> Raised("Active academic year/term not set. Complete onboarding first.")]
    ELSE LET term_id == CHOOSE t \in _active_term_ref(uid) : TRUE
             r == Firestore_save_assessments_and_grade(
                      SubjectsOfTerm(term_id), UnderPath(assessments, subject_id),
                      UnderPath(grades, term_id), uid, subject_id, raw_scores)
         IN  [assessments |-> OnPath(assessments, subject_id, r.assessments),
              grades |-> OnPath(grades, term_id, r.grades),
              result |-> r.result]

\* the submissions made where terms are: no component at all, and every
\* component at a third of its marks (2-credit subjects, which gives F and
\* grade point 4) or above its maximum (the others, which gives S and 10)
TermInputs(credits) ==
    LET rules == InputRules(credits)
    IN  {UniformScores(rules, Range(RuleNames(rules)), IF credits = 2 THEN 2 ELSE 1),
         EmptyScores}

TermInputsOf == [credits \in CreditChoices |-> TermInputs(credits)]

SaveGrade ==
    /\ \E uid \in DOMAIN users, subject_id \in DOMAIN subjects \cup {UnknownSubject} :
          \E raw_scores \in (IF subject_id \in DOMAIN subjects
                             THEN TermInputsOf[subjects[subject_id].credits]
                             ELSE {EmptyScores}) :
             LET r == save_assessments_and_grade(uid, subject_id, raw_scores)
             IN  /\ assessments' = r.assessments
                 /\ grades' = r.grades
                 /\ outcome' = Done("save_assessments_and_grade", uid,
                                    <<subject_id>>, r.result)
    /\ UNCHANGED <<call, ret, backend, subjects, procs,
                   users, years, terms, tasks_collection, events_collection>>

\* a set as a list, in some order
ListOf(S) == CHOOSE seq \in [1..Cardinality(S) -> S] : Range(seq) = S

\* list_grades: Appwrite lists the user's grade documents, Firestore the
\* documents of the active term's grades collection.  [ok, grades]; the sort
\* by subject_name is left out, as the sums below do not depend on the order.
list_grades(uid) ==
    IF backend = "appwrite"
    THEN [ok |-> TRUE,
          grades |-> ListOf(Listing(grades, {g \in DOMAIN grades : grades[g].user_id = uid}))]
    ELSE IF _active_term_ref(uid) = {} THEN [ok |-> FALSE, grades |-> << >>]
    ELSE [ok |-> TRUE,
          grades |-> ListOf(Listing(grades, {g \in DOMAIN grades :
                                                /\ grades[g].user_id = uid
                                                /\ g[2] \in _active_term_ref(uid)}))]

\* the loop of calculate_and_store_sgpa over the listed grades: the
\* <<credits, grade_point>> pairs of the grades with credits > 0
RECURSIVE CourseResults(_)
CourseResults(listed) ==
    IF listed = << >> THEN << >>
    ELSE (IF Head(listed).data.credits <= 0 THEN << >>
          ELSE << <<Head(listed).data.credits, Head(listed).data.grade_point>> >>)
         \o CourseResults(Tail(listed))

\* calculate_and_store_sgpa that clears the active term's result when no
\* grade is listed
Mutant_calculate_and_store_sgpa_ClearsOnNoGrades(uid) ==
    LET listed == list_grades(uid)
        unchanged(message) == [ok |-> FALSE, error |-> message, terms |-> terms]
    IN  IF ~listed.ok THEN unchanged("Active academic year/term not set. Complete onboarding first.")
        ELSE IF listed.grades = << >>
        THEN [ok |-> FALSE, error |-> "No grades found to calculate SGPA.",
              terms |-> [t \in DOMAIN terms |->
                            IF t \in ActiveTermId(uid)
                            THEN [terms[t] EXCEPT !.sgpa = {}, !.total_credits = 0]
                            ELSE terms[t]]]
        ELSE
        LET course_results == CourseResults(listed.grades)
            total_credits == TotalCredits(course_results, 1)
            sgpa == calculate_sgpa(course_results)
        IN  IF ~sgpa.ok THEN unchanged(sgpa.error)
            ELSE IF ActiveTermId(uid) = {} THEN unchanged("Active term not found.")
            ELSE LET term_id == CHOOSE t \in ActiveTermId(uid) : TRUE
                 IN  [ok |-> TRUE, sgpa |-> sgpa.value, total_credits |-> total_credits,
                      terms |-> [terms EXCEPT ![term_id] =
                                    [@ EXCEPT !.sgpa = {sgpa.value},
                                              !.total_credits = total_credits]]]

\* calculate_and_store_sgpa of either service: [ok, sgpa, total_credits, terms]
\* or [ok |-> FALSE, error, terms].  (The active term is one of the user's
\* term documents, so Firestore's set(..., merge=True) updates it as
\* Appwrite's _update_document does.)
calculate_and_store_sgpa(uid) ==
    LET listed == list_grades(uid)
        unchanged(message) == [ok |-> FALSE, error |-> message, terms |-> terms]
    IN  IF ~listed.ok THEN unchanged("Active academic year/term not set. Complete onboarding first.")
        ELSE IF listed.grades = << >> THEN unchanged("No grades found to calculate SGPA.")
        ELSE
        LET course_results == CourseResults(listed.grades)
            total_credits == TotalCredits(course_results, 1)
            sgpa == calculate_sgpa(course_results)
        IN  IF ~sgpa.ok THEN unchanged(sgpa.error)
            ELSE IF ActiveTermId(uid) = {} THEN unchanged("Active term not found.")
            ELSE LET term_id == CHOOSE t \in ActiveTermId(uid) : TRUE
                 IN  [ok |-> TRUE, sgpa |-> sgpa.value, total_credits |-> total_credits,
                      terms |-> [terms EXCEPT ![term_id] =
                                    [@ EXCEPT !.sgpa = {sgpa.value},
                                              !.total_credits = total_credits]]]

CalculateAndStoreSgpa ==
    /\ \E uid \in DOMAIN users :
          LET r == calculate_and_store_sgpa(uid)
          IN  /\ terms' = r.terms
              /\ outcome' = Done("calculate_and_store_sgpa", uid, << >>,
                                 IF r.ok THEN [ok |-> TRUE, sgpa |-> r.sgpa,
                                               total_credits |-> r.total_credits]
                                 ELSE Raised(r.error))
    /\ UNCHANGED <<call, ret, backend, subjects, assessments, grades, procs,
                   users, years, tasks_collection, events_collection>>

\* the terms the nested loops of calculate_and_store_cgpa visit: per year of
\* the user, the user's terms of that year, as a list of listed documents
TermsVisited(uid) ==
    LET mine == {y \in DOMAIN years : years[y].user_id = uid}
    IN  ListOf(Listing(terms, {t \in DOMAIN terms : /\ terms[t].user_id = uid
                                                     /\ terms[t].year_id \in mine}))

\* the loop body: a term without sgpa or with no credits is skipped
RECURSIVE SemesterEntries(_)
SemesterEntries(visited) ==
    IF visited = << >> THEN << >>
    ELSE LET term == Head(visited)
         IN  (IF term.data.sgpa = {} \/ term.data.total_credits = 0 THEN << >>
              ELSE << [label |-> <<years[term.data.year_id].label, term.data.name>>,
                       sgpa |-> CHOOSE v \in term.data.sgpa : TRUE,
                       credits |-> term.data.total_credits] >>)
             \o SemesterEntries(Tail(visited))

\* calculate_and_store_cgpa that takes a term without sgpa as one of sgpa 0.0
Mutant_calculate_and_store_cgpa_NoneAsZero(uid, tie_up) ==
    LET visited == TermsVisited(uid)
        trend == [i \in 1..Len(visited) |->
                     [label |-> <<years[visited[i].data.year_id].label, visited[i].data.name>>,
                      sgpa |-> IF visited[i].data.sgpa = {} THEN 0
                               ELSE CHOOSE v \in visited[i].data.sgpa : TRUE,
                      credits |-> IF visited[i].data.total_credits = 0 THEN 1
                                  ELSE visited[i].data.total_credits]]
        semester_results == [i \in 1..Len(trend) |-> <<trend[i].sgpa, trend[i].credits>>]
        cgpa == calculate_cgpa(semester_results, tie_up)
    IN  IF semester_results = << >>
        THEN [ok |-> FALSE, error |-> "No semester results found for CGPA.", users |-> users]
        ELSE IF ~cgpa.ok THEN [ok |-> FALSE, error |-> cgpa.error, users |-> users]
        ELSE [ok |-> TRUE, cgpa |-> cgpa.value, trend |-> trend,
              users |-> [users EXCEPT ![uid] = [@ EXCEPT !.cgpa = {cgpa.value}]]]

\* calculate_and_store_cgpa of either service: [ok, cgpa, trend, users] or
\* [ok |-> FALSE, error, users]; tie_up as in calculate_cgpa
calculate_and_store_cgpa(uid, tie_up) ==
    LET trend == SemesterEntries(TermsVisited(uid))
        semester_results == [i \in 1..Len(trend) |-> <<trend[i].sgpa, trend[i].credits>>]
        cgpa == calculate_cgpa(semester_results, tie_up)
    IN  IF semester_results = << >>
        THEN [ok |-> FALSE, error |-> "No semester results found for CGPA.", users |-> users]
        ELSE IF ~cgpa.ok THEN [ok |-> FALSE, error |-> cgpa.error, users |-> users]
        ELSE [ok |-> TRUE, cgpa |-> cgpa.value, trend |-> trend,
              users |-> [users EXCEPT ![uid] = [@ EXCEPT !.cgpa = {cgpa.value}]]]

CalculateAndStoreCgpa ==
    /\ \E uid \in DOMAIN users, tie_up \in BOOLEAN :
          LET r == calculate_and_store_cgpa(uid, tie_up)
          IN  /\ users' = r.users
              /\ outcome' = Done("calculate_and_store_cgpa", uid, << >>,
                                 IF r.ok THEN [ok |-> TRUE, cgpa |-> r.cgpa, trend |-> r.trend]
                                 ELSE Raised(r.error))
    /\ UNCHANGED <<call, ret, backend, subjects, assessments, grades, procs,
                   years, terms, tasks_collection, events_collection>>

\* one user after onboarding, no subject yet
InitTerms ==
    /\ call = [op |-> "none"]
    /\ ret = Pending
    /\ backend \in {"appwrite", "firestore"}
    /\ LET o == Onboarded("u1", 1, "2025-26")
       IN  users = o.users /\ years = o.years /\ terms = o.terms
    /\ subjects = NoDocs
    /\ assessments = NoDocs
    /\ grades = NoDocs
    /\ tasks_collection = NoDocs
    /\ events_collection = NoDocs
    /\ outcome = [done |-> FALSE]
    /\ procs = << >>

\* subjects created, graded and deleted, terms switched, the SGPA stored
NextTerms ==
    \/ SetActiveTerm
    \/ CreateSubjectByApi
    \/ CreateSubjectByScreen
    \/ DeleteSubject
    \/ SaveGrade
    \/ CalculateAndStoreSgpa

SpecTerms == InitTerms /\ [][NextTerms]_vars

\* subjects created and graded, terms switched, the SGPA and the CGPA stored
NextTrend ==
    \/ SetActiveTerm
    \/ CreateSubjectByApi
    \/ CreateSubjectByScreen
    \/ SaveGrade
    \/ CalculateAndStoreSgpa
    \/ CalculateAndStoreCgpa

SpecTrend == InitTerms /\ [][NextTrend]_vars

(***************************************************************************)
(* Two users of the Appwrite service.  Every collection is shared by all   *)
(* users; a document belongs to the user its user_id names.                *)
(***************************************************************************)

\* the fields of a task document that the operations below read or write;
\* term is what _active_term(uid) returned
TaskDoc(uid, term, title) ==
    [user_id |-> uid, year_id |-> term.data.year_id, term_id |-> term.id,
     title |-> title, completed |-> FALSE]

\* create_task: the collection with the new task
create_task(docs, uid, term, title) ==
    _create_document(docs, {}, "task", TaskDoc(uid, term, title))

EventDoc(uid, term, title) ==
    [user_id |-> uid, year_id |-> term.data.year_id, term_id |-> term.id, title |-> title]

\* create_event: the collection with the new event
create_event(docs, uid, term, title) ==
    _create_document(docs, {}, "event", EventDoc(uid, term, title))

\* _find_first with the queries equal("$id", id) and equal("user_id", uid)
FindOwned(docs, uid, document_id) ==
    Listing(docs, {i \in DOMAIN docs : i = document_id /\ docs[i].user_id = uid})

\* set_task_completed: [ok, docs] or a raised error with the collection as it was
set_task_completed(docs, uid, task_id, completed) ==
    IF FindOwned(docs, uid, task_id) = {}
    THEN [ok |-> FALSE, error |-> "Task not found.", docs |-> docs]
    ELSE _update_document(docs, task_id, [docs[task_id] EXCEPT !.completed = completed])

\* delete_task that looks the task up by its id alone
Mutant_delete_task_AnyOwner(docs, uid, task_id) ==
    IF task_id \notin DOMAIN docs THEN docs
    ELSE _delete_document(docs, task_id).docs

\* delete_task: the collection afterwards
delete_task(docs, uid, task_id) ==
    IF FindOwned(docs, uid, task_id) = {} THEN docs
    ELSE _delete_document(docs, task_id).docs

\* delete_event: the collection afterwards
delete_event(docs, uid, event_id) ==
    IF FindOwned(docs, uid, event_id) = {} THEN docs
    ELSE _delete_document(docs, event_id).docs

\* ids that no document has
UnknownTask == <<"task", 0>>

UnknownEvent == <<"event", 0>>

SetTaskCompleted ==
    /\ \E uid \in DOMAIN users, task_id \in DOMAIN tasks_collection \cup {UnknownTask},
          completed \in BOOLEAN :
          LET r == set_task_completed(tasks_collection, uid, task_id, completed)
          IN  /\ tasks_collection' = r.docs
              /\ outcome' = Done("set_task_completed", uid, <<task_id, completed>>,
                                 IF r.ok THEN [ok |-> TRUE] ELSE Raised(r.error))
    /\ UNCHANGED <<call, ret, backend, subjects, assessments, grades, procs,
                   users, years, terms, events_collection>>

DeleteTask ==
    /\ \E uid \in DOMAIN users, task_id \in DOMAIN tasks_collection \cup {UnknownTask} :
          /\ tasks_collection' = delete_task(tasks_collection, uid, task_id)
          /\ outcome' = Done("delete_task", uid, <<task_id>>, [ok |-> TRUE])
    /\ UNCHANGED <<call, ret, backend, subjects, assessments, grades, procs,
                   users, years, terms, events_collection>>

DeleteEvent ==
    /\ \E uid \in DOMAIN users, event_id \in DOMAIN events_collection \cup {UnknownEvent} :
          /\ events_collection' = delete_event(events_collection, uid, event_id)
          /\ outcome' = Done("delete_event", uid, <<event_id>>, [ok |-> TRUE])
    /\ UNCHANGED <<call, ret, backend, subjects, assessments, grades, procs,
                   users, years, terms, tasks_collection>>

\* two users after onboarding, each with a subject, a task and an event of
\* the first term
InitIsolation ==
    LET a == Onboarded("u1", 1, "2025-26")
        b == Onboarded("u2", 2, "2025-26")
        all_terms == a.terms @@ b.terms
        term1 == [id |-> <<"term", 1>>, data |-> all_terms[<<"term", 1>>]]
        term3 == [id |-> <<"term", 3>>, data |-> all_terms[<<"term", 3>>]]
    IN  /\ call = [op |-> "none"]
        /\ ret = Pending
        /\ backend = "appwrite"
        /\ users = a.users @@ b.users
        /\ years = a.years @@ b.years
        /\ terms = all_terms
        /\ subjects = _create_document(
                          _create_document(NoDocs, {}, "subject",
                                           SubjectDoc("u1", term1, "Maths", 2)),
                          {}, "subject", SubjectDoc("u2", term3, "Physics", 4))
        /\ assessments = NoDocs
        /\ grades = NoDocs
        /\ tasks_collection = create_task(create_task(NoDocs, "u1", term1, "Homework"),
                                          "u2", term3, "Lab report")
        /\ events_collection = create_event(create_event(NoDocs, "u1", term1, "Quiz"),
                                            "u2", term3, "Seminar")
        /\ outcome = [done |-> FALSE]
        /\ procs = << >>

\* either user deletes, completes and grades, with ids of either user
NextIsolation ==
    \/ DeleteSubject
    \/ DeleteTask
    \/ DeleteEvent
    \/ SetTaskCompleted
    \/ SaveGrade

SpecIsolation == InitIsolation /\ [][NextIsolation]_vars

(***************************************************************************)
(* Properties.                                                             *)
(***************************************************************************)
\* the component names the rule table requires for a credit model
Required(credits) == Range(RuleNames(RULES_BY_CREDITS[credits]))

\* the credit models the specification supports
SupportedCredits == {2, 4, 5}

\* the ids of the grade documents stored for a subject
GradeIdsOf(subject_id) == {g \in DOMAIN grades : grades[g].subject_id = subject_id}

\* the band table of the specification, in hundredths
Bands ==
    { [lo |-> 9000, hi |-> 10000, letter |-> "S", point |-> 10],
      [lo |-> 8000, hi |-> 8999, letter |-> "A", point |-> 9],
      [lo |-> 7000, hi |-> 7999, letter |-> "B", point |-> 8],
      [lo |-> 6000, hi |-> 6999, letter |-> "C", point |-> 7],
      [lo |-> 5000, hi |-> 5999, letter |-> "D", point |-> 6],
      [lo |-> 4000, hi |-> 4999, letter |-> "E", point |-> 5],
      [lo |-> 0, hi |-> 3999, letter |-> "F", point |-> 4] }

\* the band of a score; a score of 90.00 or more is in the S band
BandOf(score) ==
    IF score >= 9000 THEN CHOOSE b \in Bands : b.letter = "S"
    ELSE CHOOSE b \in Bands : b.lo <= score /\ score <= b.hi

\* a call of save_assessments_and_grade has completed on a subject of a
\* supported credit model
SavedOnSupported ==
    /\ outcome.done
    /\ outcome.subject_id \in DOMAIN subjects
    /\ subjects[outcome.subject_id].credits \in SupportedCredits

\* the required components the last submission left out
LeftOut == Required(subjects[outcome.subject_id].credits) \ DOMAIN outcome.raw_scores

\* C1: for a subject of credits 2, 4 or 5, after any sequence of calls that do
\* not overlap, a grade document is stored for the subject exactly when the
\* most recent call's raw_scores held every required component; before any
\* call there is none.
C1_GradeStoredIffLastSubmissionComplete ==
    \A sid \in DOMAIN subjects :
        subjects[sid].credits \in SupportedCredits =>
            IF outcome.done /\ outcome.subject_id = sid
            THEN (GradeIdsOf(sid) # {}) <=>
                     (Required(subjects[sid].credits) \subseteq DOMAIN outcome.raw_scores)
            ELSE GradeIdsOf(sid) = {}

\* C1 witness: a subject that had a grade, then a submission that omits exactly
\* one required component, and no grade is left.
C1_Witness ==
    /\ SavedOnSupported
    /\ outcome.had_grade
    /\ Cardinality(LeftOut) = 1
    /\ GradeIdsOf(outcome.subject_id) = {}

\* C2: while calls of save_assessments_and_grade on one subject are in progress,
\* their store requests interleaved one at a time, every observable state that
\* holds a grade document for a subject of credits 2, 4 or 5 holds an assessment
\* for every required component, and the grade's score is the evaluation of the
\* raw scores stored.
C2_NoPartialWriteObservable ==
    \A sid \in DOMAIN subjects :
        subjects[sid].credits \in SupportedCredits =>
            \A g \in GradeIdsOf(sid) :
                LET credits == subjects[sid].credits
                    stored == get_assessments(assessments, subjects[sid].user_id, sid)
                IN  /\ Required(credits) \subseteq DOMAIN stored
                    /\ grades[g].final_score_100 =
                           calculate_subject_score(credits, stored).score

RulePosition(name) ==
    LET rules == RULES_BY_CREDITS[subjects[outcome.subject_id].credits]
    IN  CHOOSE i \in 1..Len(rules) : rules[i].name = name

\* C4: a call whose raw_scores lack a required component (the empty submission
\* too) succeeds with partial = true, and its missing list holds exactly the
\* required names absent from raw_scores, once each, in rule-table order.
C4_PartialOutcomeListsMissing ==
    (SavedOnSupported /\ LeftOut # {}) =>
        /\ outcome.result.ok
        /\ outcome.result.partial
        /\ LET missing == outcome.result.missing
           IN  /\ Range(missing) = LeftOut
               /\ Len(missing) = Cardinality(LeftOut)
               /\ \A i, j \in 1..Len(missing) :
                     i < j => RulePosition(missing[i]) < RulePosition(missing[j])

\* C4 witness: an empty submission, reported partial with every name missing.
C4_Witness ==
    /\ SavedOnSupported
    /\ outcome.raw_scores = EmptyScores
    /\ outcome.result.ok
    /\ outcome.result.partial
    /\ Len(outcome.result.missing) >= 3

\* C5: after a call returns, the raw scores stored for the subject are exactly
\* the submission restricted to the required component names (submitted ones
\* stored with the submitted value, omitted ones removed), and when a required
\* component is left out no grade remains.
C5_StoredScoresAreTheSubmission ==
    (SavedOnSupported /\ outcome.result.ok) =>
        /\ get_assessments(assessments, outcome.uid, outcome.subject_id)
               = [n \in DOMAIN outcome.raw_scores
                          \cap Required(subjects[outcome.subject_id].credits)
                      |-> outcome.raw_scores[n]]
        /\ LeftOut # {} => GradeIdsOf(outcome.subject_id) = {}

\* C5 witness: the subject had a grade (so every component was stored), the
\* call omits some required component and submits others, and what is stored
\* is the rest.
C5_Witness ==
    /\ SavedOnSupported
    /\ outcome.had_grade
    /\ outcome.result.ok
    /\ LeftOut # {}
    /\ DOMAIN get_assessments(assessments, outcome.uid, outcome.subject_id)
           = Required(subjects[outcome.subject_id].credits) \ LeftOut
    /\ DOMAIN get_assessments(assessments, outcome.uid, outcome.subject_id) # {}

\* C6: a raw-score set with a component name outside the rule table is
\* rejected with a validation error: evaluate_subject returns no score for it.
C6_UnknownComponentRejected ==
    (call.op = "evaluate_subject" /\ ret.done /\ UnknownName \in DOMAIN call.raw_scores) =>
        ~ret.value.ok

\* C7: an unrecognized credit model fails closed: evaluate_subject raises the
\* unsupported-credit-model error for every credits value other than 2, 4 and
\* 5, and save_assessments_and_grade on such a subject raises that error and
\* leaves the assessments and the grades as they were (none).
C7_UnsupportedCreditsFailClosed ==
    /\ (call.op = "evaluate_subject" /\ ret.done /\ call.credits \notin SupportedCredits) =>
          /\ ~ret.value.ok
          /\ ret.value.error = "Unsupported credit model"
    /\ (outcome.done /\ subjects[outcome.subject_id].credits \notin SupportedCredits) =>
          /\ ~outcome.result.ok
          /\ outcome.result.error = "Unsupported credit model for subject."
          /\ assessments = NoDocs
          /\ grades = NoDocs

\* C7 witness: a submission with marks to a subject of an unsupported credit
\* model, refused.
C7_Witness ==
    /\ outcome.done
    /\ subjects[outcome.subject_id].credits \notin SupportedCredits
    /\ DOMAIN outcome.raw_scores # {}
    /\ ~outcome.result.ok

\* C8: for every supported credit model and every complete raw-score set, the
\* score calculate_subject_score returns lies in [0, 100].
C8_ScoreWithinZeroToHundred ==
    (call.op = "evaluate_subject" /\ ret.done /\ call.credits \in SupportedCredits
        /\ ret.value.ok) =>
        (0 <= ret.value.score /\ ret.value.score <= 10000)

\* the sum of reduced_to over a rule sequence, in tenths
RECURSIVE SumReducedTo(_)
SumReducedTo(rules) ==
    IF rules = << >> THEN 0 ELSE Head(rules).reduced_to + SumReducedTo(Tail(rules))

\* C9: for every credit model of the rule table, the reduced ceilings of its
\* required components sum to exactly 100.
C9_ReducedCeilingsSumToHundred ==
    (call.op = "evaluate_subject" /\ ret.done /\ call.credits \in DOMAIN RULES_BY_CREDITS) =>
        SumReducedTo(RULES_BY_CREDITS[call.credits]) = 1000

\* C10: for every score in [0, 100] at 2-decimal resolution, to_letter_grade
\* and to_grade_point return the one band that contains the score, low end
\* inclusive (90.00 is S, 89.99 is A), and the grade point of the next higher
\* score is never lower.
C10_BandOfScore ==
    (call.op = "to_letter_grade" /\ ret.done /\ 0 <= call.score /\ call.score <= 10000) =>
        /\ Cardinality({b \in Bands : b.lo <= call.score /\ call.score <= b.hi}) = 1
        /\ \A b \in Bands :
              (b.lo <= call.score /\ call.score <= b.hi) =>
                  (ret.letter = b.letter /\ ret.point = b.point)
        /\ call.score < 10000 =>
              ret.point <= to_grade_point(to_letter_grade(call.score + 1))

\* C10 witness: 89.99 evaluated, and it is an A.
C10_Witness ==
    /\ call.op = "to_letter_grade"
    /\ ret.done
    /\ call.score = 8999
    /\ ret.letter = "A"
    /\ ret.point = 9

\* C11: a score below 0 or above 100 given to to_letter_grade with
\* to_grade_point, or to grade_from_marks, comes back as letter F with grade
\* point 4.
C11_OutOfRangeFailsClosed ==
    (ret.done /\ (call.score < 0 \/ call.score > 10000)) =>
        (ret.letter = "F" /\ ret.point = 4)

\* the entries of a GPA call as <<credits, value in hundredths>> pairs
GpaPairs ==
    [i \in 1..Len(call.entries) |->
        LET entry == call.entries[i]
        IN  IF call.op = "calculate_cgpa" THEN <<entry[2], entry[1]>>
            ELSE IF call.op = "calc_sgpa" THEN <<entry.credits, 100 * entry.grade_point>>
            ELSE <<entry[1], 100 * entry[2]>>]

RECURSIVE SumOfCredits(_)
SumOfCredits(pairs) == IF pairs = << >> THEN 0 ELSE Head(pairs)[1] + SumOfCredits(Tail(pairs))

RECURSIVE SumOfCreditsTimesValue(_)
SumOfCreditsTimesValue(pairs) ==
    IF pairs = << >> THEN 0
    ELSE Head(pairs)[1] * Head(pairs)[2] + SumOfCreditsTimesValue(Tail(pairs))

Abs(n) == IF n < 0 THEN 0 - n ELSE n

\* a GPA function has returned or raised
GpaDone == call.op \in {"calculate_sgpa", "calculate_cgpa", "calc_sgpa"} /\ ret.done

\* C12: on a non-empty list of entries with positive credits, calculate_sgpa,
\* calculate_cgpa and calc_sgpa return a 2-decimal number nearest to the sum of
\* credits times value divided by the sum of credits; [(4,9),(5,8),(2,10)]
\* gives 8.73 and [(8.5,8),(9.0,10)] gives 8.78.
C12_CreditWeightedMean ==
    (/\ GpaDone
     /\ call.entries # << >>
     /\ \A i \in 1..Len(GpaPairs) : GpaPairs[i][1] > 0) =>
        /\ ret.value.ok
        /\ 2 * Abs(ret.value.value * SumOfCredits(GpaPairs) - SumOfCreditsTimesValue(GpaPairs))
              <= SumOfCredits(GpaPairs)
        /\ (call.op # "calculate_cgpa" /\ GpaPairs = << <<4, 900>>, <<5, 800>>, <<2, 1000>> >>)
              => ret.value.value = 873
        /\ (call.op = "calculate_cgpa" /\ call.entries = << <<850, 8>>, <<900, 10>> >>)
              => ret.value.value = 878

\* C12 witness: calculate_sgpa has returned 8.73 for [(4,9),(5,8),(2,10)].
C12_Witness ==
    /\ GpaDone
    /\ call.op = "calculate_sgpa"
    /\ call.entries = << <<4, 9>>, <<5, 8>>, <<2, 10>> >>
    /\ ret.value.ok
    /\ ret.value.value = 873

\* C13: calculate_sgpa and calculate_cgpa raise, and return no number, when an
\* entry has credits <= 0 and when the list of entries is empty.
C13_BadCreditsRaise ==
    (/\ call.op \in {"calculate_sgpa", "calculate_cgpa"}
     /\ ret.done
     /\ \/ call.entries = << >>
        \/ \E i \in 1..Len(GpaPairs) : GpaPairs[i][1] <= 0) =>
        /\ ~ret.value.ok
        /\ DOMAIN ret.value = {"ok", "error"}

\* C13 witness: calculate_cgpa has raised on a list whose second entry has no
\* credits and whose other entries have positive credits.
C13_Witness ==
    /\ call.op = "calculate_cgpa"
    /\ ret.done
    /\ Len(call.entries) = 3
    /\ GpaPairs[1][1] > 0
    /\ GpaPairs[2][1] = 0
    /\ GpaPairs[3][1] > 0
    /\ ~ret.value.ok

\* C14: evaluate_subject called a second time with the same credit model and
\* raw scores returns what the first call returned, and a second call of
\* save_assessments_and_grade with the submission of the call before leaves the
\* stored assessments and the stored grade as the first call left them, and
\* returns the same.
C14_Idempotent ==
    /\ (call.op = "evaluate_subject" /\ ret.done /\ "first" \in DOMAIN ret) =>
          ret.value = ret.first
    /\ call.op = "repeat" =>
          /\ assessments = call.assessments
          /\ grades = call.grades
          /\ outcome.result = call.result

\* C14 witness: a complete submission saved a second time through Appwrite on a
\* subject of credits 4, with the grade of the first call still the one stored.
C14_Witness ==
    /\ call.op = "repeat"
    /\ backend = "appwrite"
    /\ SavedOnSupported
    /\ subjects[outcome.subject_id].credits = 4
    /\ LeftOut = {}
    /\ outcome.had_grade
    /\ \E g \in GradeIdsOf(outcome.subject_id) : grades[g] = outcome.result.grade_doc

\* the dashboard has been built
DashboardDone == call.op = "build_dashboard_view" /\ ret.done

\* all slots of the timetable given to the dashboard, as <<subject, position>>
AllSlots ==
    {<<n, i>> : n \in 1..Len(call.subjects), i \in 1..MaxSlots + 1} \cap
    UNION {{<<n, i>> : i \in 1..Len(call.subjects[n].schedule_slots)} :
              n \in 1..Len(call.subjects)}

SlotAt(at) == call.subjects[at[1]].schedule_slots[at[2]]

\* the slots of the weekday that lies `offset` days after today
SlotsOn(offset) ==
    {at \in AllSlots : SlotAt(at).day = DAY_NAMES[((call.now.weekday + offset) % 7) + 1]}

\* now's time of day in seconds
NowSeconds == call.now.hour * 3600 + call.now.minute * 60 + call.now.second

\* the slots of today's weekday that end later than now
StillToEnd == {at \in SlotsOn(0) : _to_minutes(SlotAt(at).end_time) * 60 > NowSeconds}

\* C15: when today's weekday has a slot whose end_time, in minutes since
\* midnight, is later than now's time of day, _pick_schedule_day resolves to
\* today.
C15_TodayWhileASlotIsToEnd ==
    (DashboardDone /\ StillToEnd # {}) =>
        /\ ret.value.ok
        /\ ret.value.target_day = 0

\* C15 witness: today has a slot that has ended and one that is still to end,
\* and the resolved day is today.
C15_Witness ==
    /\ DashboardDone
    /\ StillToEnd # {}
    /\ SlotsOn(0) \ StillToEnd # {}
    /\ ret.value.ok
    /\ ret.value.target_day = 0

\* C16: when today's weekday has no slot that ends later than now, the
\* resolved day is the first of the next 7 days whose weekday has a slot (today
\* + 7 when only today's weekday has slots), and today with no slots when no
\* weekday has a slot.
C16_NextDayWithSlots ==
    (DashboardDone /\ StillToEnd = {}) =>
        /\ ret.value.ok
        /\ LET probes == {offset \in 1..7 : SlotsOn(offset) # {}}
           IN  IF probes = {}
               THEN ret.value.target_day = 0 /\ ret.value.target_slots = << >>
               ELSE /\ ret.value.target_day \in probes
                    /\ \A offset \in probes : ret.value.target_day <= offset

\* C17: the list _schedule_map holds for each weekday is in ascending order of
\* start_time taken as minutes since midnight, and holds exactly the slots of
\* all subjects whose day is that weekday.
C17_SlotsSortedByStartMinutes ==
    (DashboardDone /\ ret.value.ok) =>
        \A n \in 1..7 :
            LET rows == ret.value.schedule_by_day[DAY_NAMES[n]]
                mine == {at \in AllSlots : SlotAt(at).day = DAY_NAMES[n]}
            IN  /\ \A i \in 1..(Len(rows) - 1) :
                      _to_minutes(rows[i].start_time) <= _to_minutes(rows[i + 1].start_time)
                /\ Len(rows) = Cardinality(mine)
                /\ \A at \in mine :
                      \E i \in 1..Len(rows) :
                         /\ rows[i].subject_name = call.subjects[at[1]].name
                         /\ rows[i].start_time = SlotAt(at).start_time
                         /\ rows[i].end_time = SlotAt(at).end_time

\* either dashboard has been built, or has raised
AnyDashboardDone == call.op \in {"build_dashboard_view", "dashboard_view"} /\ ret.done

\* the tasks and events the dashboard computes its lists from
WorkingTasks ==
    IF call.op = "build_dashboard_view"
    THEN Loaded(call.subjects, call.tasks, call.events).tasks
    ELSE call.tasks

WorkingEvents ==
    IF call.op = "build_dashboard_view"
    THEN Loaded(call.subjects, call.tasks, call.events).events
    ELSE << >>

\* a timestamp from the start of today to the end of tomorrow, both included
InDueWindow(timestamp) == timestamp.kind = "datetime" /\ timestamp.day \in {0, 1}

IdsOf(rows) == {rows[i].id : i \in 1..Len(rows)}

C19_DueSoonHoldsEvents ==
    (AnyDashboardDone /\ call.op = "build_dashboard_view" /\ ret.value.ok) =>
        \A j \in 1..Len(WorkingEvents) :
            InDueWindow(WorkingEvents[j].starts_at) =>
                \E i \in 1..Len(ret.value.due_tasks) : ret.value.due_tasks[i] = WorkingEvents[j]

\* C20: with a task or event whose timestamp is absent or is a text that is no
\* date, the due-soon list and the upcoming events are computed without an
\* error and hold no such item.
C20_BadTimestampsLeftOut ==
    AnyDashboardDone =>
        /\ ret.value.ok
        /\ \A i \in 1..Len(ret.value.due_tasks) :
              ret.value.due_tasks[i].due_at.kind = "datetime"
        /\ call.op = "build_dashboard_view" =>
              \A i \in 1..Len(ret.value.upcoming_events) :
                 ret.value.upcoming_events[i].starts_at.kind = "datetime"

\* C24: for every mark m in [0, 100], whole or not, grade_from_marks returns
\* the letter and grade point of the band that contains m (S/10 from 90, A/9
\* from 80, B/8 from 70, C/7 from 60, D/6 from 50, E/5 from 40, F/4 below),
\* which is what to_letter_grade followed by to_grade_point returns for m.
C24_GradeFromMarksIsBandOfMark ==
    (call.op = "grade_from_marks" /\ ret.done /\ call.score \in 0..10000) =>
        /\ ret.letter = BandOf(call.score).letter
        /\ ret.point = BandOf(call.score).point
        /\ ret.letter = to_letter_grade(call.score)
        /\ ret.point = to_grade_point(to_letter_grade(call.score))

\* the courses of all semesters of a calc_cgpa call, in one list
RECURSIVE Flatten(_)
Flatten(semesters) ==
    IF semesters = << >> THEN << >> ELSE Head(semesters) \o Flatten(Tail(semesters))

\* the same courses in ascending order of (credits, grade point)
RECURSIVE InOrder(_)
InOrder(courses) ==
    IF courses = << >> THEN << >>
    ELSE LET key(c) == 100 * c.credits + c.grade_point
             least == CHOOSE i \in 1..Len(courses) :
                         \A j \in 1..Len(courses) :
                            key(courses[i]) < key(courses[j])
                            \/ (key(courses[i]) = key(courses[j]) /\ i <= j)
         IN  << courses[least] >>
             \o InOrder(SubSeq(courses, 1, least - 1) \o SubSeq(courses, least + 1, Len(courses)))

CgpaDone == call.op = "calc_cgpa" /\ ret.done

\* C25: calc_cgpa returns the credit-weighted mean of the grade points of all
\* courses of all semesters to 2 decimals: what calc_sgpa returns for the
\* semesters joined into one list, the same for every split of the same
\* courses into semesters and every order of them, and 0.0 when the credits
\* add up to zero.
C25_PooledWeightedMean ==
    CgpaDone =>
        LET pooled == Flatten(call.entries)
            pairs == CoursePairs(pooled)
            total == SumOfCredits(pairs)
            weighted == SumOfCreditsTimesValue(pairs)
        IN  /\ ret.value = calc_sgpa(pooled)
            /\ ret.value = calc_cgpa(<< InOrder(pooled) >>)
            /\ ret.value = calc_cgpa([i \in 1..Len(pooled) |-> << InOrder(pooled)[i] >>])
            /\ total = 0 => ret.value = 0
            /\ total # 0 => 2 * Abs(ret.value * total - 100 * weighted) <= Abs(total)

\* the two semesters of the test: (4, 8), (4, 9) and (5, 10), (2, 8) give 8.93
C25_Witness ==
    /\ CgpaDone
    /\ call.entries = << << CourseResult(4, 8), CourseResult(4, 9) >>,
                         << CourseResult(5, 10), CourseResult(2, 8) >> >>
    /\ ret.value = 893

FinalDone == call.op = "calc_subject_final" /\ ret.done

\* the sums of the obtained marks and of the maximum marks of the call
ObtainedSum == SumOfCreditsTimesValue([i \in 1..Len(call.theory_components) |->
                                         <<1, call.theory_components[i][1]>>])

MaximumSum == SumOfCredits([i \in 1..Len(call.theory_components) |->
                              <<call.theory_components[i][2]>>])

\* the greatest common divisor of two numbers that are not both 0
GreatestDivisor(p, q) ==
    CHOOSE g \in 1..(IF p > q THEN p ELSE q) :
       /\ p % g = 0 /\ q % g = 0
       /\ \A h \in (g + 1)..(IF p < q THEN p ELSE q) : ~(p % h = 0 /\ q % h = 0)

\* a fraction in lowest terms holds the number p / q (q > 0) cut off at 0 and
\* at 100
IsClamped(f, p, q) ==
    IF p <= 0 THEN f.num = 0 /\ f.den = 1
    ELSE IF p > 100 * q THEN f.num = 100 /\ f.den = 1
    ELSE /\ f.num = p \div GreatestDivisor(p, q)
         /\ f.den = q \div GreatestDivisor(p, q)

\* the theory and lab percentages as <<p, q>>: p / q cut off at 0 and at 100
TheoryPct ==
    IF MaximumSum <= 0 \/ ObtainedSum < 0 THEN <<0, 1>>
    ELSE IF ObtainedSum > MaximumSum THEN <<100, 1>>
    ELSE <<100 * ObtainedSum, MaximumSum>>

LabPct ==
    LET marks == LabValue(call.lab_marks)
    IN  IF marks < 0 THEN <<0, 1>>
        ELSE IF marks > call.lab_max THEN <<100, 1>>
        ELSE <<100 * marks, call.lab_max>>

\* C26: calc_subject_final returns the theory percentage (100 * obtained /
\* maximum over the theory components, within [0, 100], 0 when the maxima sum
\* to 0 or less) for credits 2 and 4; 0.80 * theory percentage + 0.20 * lab
\* percentage within [0, 100] for credits 5, where it raises a ValueError
\* when lab_marks is missing or lab_max is not positive; it raises a
\* ValueError for every other credits value; a returned result lies in
\* [0, 100].
C26_SubjectFinal ==
    FinalDone =>
        LET r == ret.value
            no_lab == call.lab_marks = NoLabMarks \/ call.lab_max <= 0
        IN  /\ call.credits \in {2, 4} =>
                  /\ r.ok
                  /\ IsClamped(r.value, TheoryPct[1], TheoryPct[2])
            /\ (call.credits = 5 /\ no_lab) => ~r.ok
            /\ (call.credits = 5 /\ ~no_lab) =>
                  /\ r.ok
                  /\ IsClamped(r.value,
                               4 * TheoryPct[1] * LabPct[2] + LabPct[1] * TheoryPct[2],
                               5 * TheoryPct[2] * LabPct[2])
            /\ call.credits \notin {2, 4, 5} => ~r.ok
            /\ r.ok => (r.value.den > 0 /\ 0 <= r.value.num /\ r.value.num <= 100 * r.value.den)

\* a 5-credit subject with 128 of 150 theory marks and 18 of 20 lab marks:
\* 0.80 * 85.33 + 0.20 * 90 = 86.27 (1294 / 15)
C26_Witness ==
    /\ FinalDone
    /\ call.credits = 5
    /\ call.theory_components = << <<40, 50>>, <<88, 100>> >>
    /\ call.lab_marks = {18}
    /\ call.lab_max = 20
    /\ ret.value.ok
    /\ ret.value.value = [num |-> 1294, den |-> 15]

\* C27: the Appwrite store never holds two grade documents of the same user
\* and subject, nor two assessment documents of the same user, subject and
\* component type, also while two save_assessments_and_grade calls on the
\* same subject overlap.
C27_AtMostOneDocumentPerKey ==
    backend = "appwrite" =>
        /\ \A g, h \in DOMAIN grades :
              (grades[g].user_id = grades[h].user_id
               /\ grades[g].subject_id = grades[h].subject_id) => g = h
        /\ \A a, b \in DOMAIN assessments :
              (assessments[a].user_id = assessments[b].user_id
               /\ assessments[a].subject_id = assessments[b].subject_id
               /\ assessments[a].type = assessments[b].type) => a = b

\* the last completed operation of the services with terms
LastOp(op) == outcome.done /\ "op" \in DOMAIN outcome /\ outcome.op = op

\* the <<credits, 100 * grade_point>> pairs of a set of grade documents
GradePairs(ids) ==
    LET listed == ListOf(ids)
    IN  [i \in 1..Len(listed) |->
            <<grades[listed[i]].credits, 100 * grades[listed[i]].grade_point>>]

\* the stored final grades of the subjects that belong to a term of a user
GradesOfTerm(uid, term_id) ==
    {g \in DOMAIN grades :
        /\ grades[g].user_id = uid
        /\ grades[g].subject_id \in DOMAIN subjects
        /\ subjects[grades[g].subject_id].user_id = uid
        /\ subjects[grades[g].subject_id].term_id = term_id}

\* value (in hundredths) is the mean of the pairs' values weighted by their
\* credits, to 2 decimals
IsWeightedMean(value, pairs) ==
    /\ SumOfCredits(pairs) > 0
    /\ 2 * Abs(value * SumOfCredits(pairs) - SumOfCreditsTimesValue(pairs))
          <= SumOfCredits(pairs)

\* C21: after calculate_and_store_sgpa succeeded, the active term's stored
\* sgpa is the credit-weighted mean of the grade points of the stored final
\* grades of the subjects of that term, and its stored total_credits is the
\* sum of those subjects' credits; no grade of a subject of another term
\* enters it.
C21_SgpaOfTheActiveTermsSubjects ==
    (LastOp("calculate_and_store_sgpa") /\ outcome.result.ok) =>
        LET term_id == users[outcome.uid].active_term_id
            pairs == GradePairs(GradesOfTerm(outcome.uid, term_id))
        IN  /\ terms[term_id].total_credits = SumOfCredits(pairs)
            /\ \E v \in terms[term_id].sgpa : IsWeightedMean(v, pairs)

\* the user's terms that have a stored sgpa and non-zero total_credits
TermsWithSgpa(uid) ==
    {t \in DOMAIN terms : /\ terms[t].user_id = uid
                          /\ terms[t].sgpa # {}
                          /\ terms[t].total_credits # 0}

\* the <<total_credits, sgpa>> pairs of a set of term documents
TermPairs(ids) ==
    LET listed == ListOf(ids)
    IN  [i \in 1..Len(listed) |->
            <<terms[listed[i]].total_credits, CHOOSE v \in terms[listed[i]].sgpa : TRUE>>]

\* the trend entry of a term
TrendEntry(t) ==
    [label |-> <<years[terms[t].year_id].label, terms[t].name>>,
     sgpa |-> CHOOSE v \in terms[t].sgpa : TRUE,
     credits |-> terms[t].total_credits]

\* what calculate_and_store_cgpa returned and stored
CgpaOfTermsWithSgpa ==
    LastOp("calculate_and_store_cgpa") =>
        LET with_sgpa == TermsWithSgpa(outcome.uid)
            result == outcome.result
        IN  IF with_sgpa = {} THEN ~result.ok
            ELSE /\ result.ok
                 /\ users[outcome.uid].cgpa = {result.cgpa}
                 /\ IsWeightedMean(result.cgpa, TermPairs(with_sgpa))
                 /\ Len(result.trend) = Cardinality(with_sgpa)
                 /\ \A t \in with_sgpa :
                       \E i \in 1..Len(result.trend) : result.trend[i] = TrendEntry(t)

\* a call of calculate_and_store_cgpa that raises leaves the profile as it was
CgpaRaiseKeepsProfile ==
    (/\ outcome'.done /\ "op" \in DOMAIN outcome'
     /\ outcome'.op = "calculate_and_store_cgpa"
     /\ ~outcome'.result.ok) => users' = users

\* C22: calculate_and_store_cgpa derives its result from exactly the user's
\* terms that have a stored sgpa and non-zero total_credits: the returned and
\* stored cgpa is the mean of those terms' sgpa weighted by their
\* total_credits, to 2 decimals; the trend has one (label, sgpa, credits)
\* entry per such term and no other; when no term qualifies the call raises
\* and the stored cgpa stays as it was.
C22_CgpaOfTheTermsWithSgpa ==
    /\ []CgpaOfTermsWithSgpa
    /\ [][CgpaRaiseKeepsProfile]_vars

\* a CGPA over two terms with different sgpa and different credits was stored
C22_Witness ==
    /\ LastOp("calculate_and_store_cgpa")
    /\ outcome.result.ok
    /\ Len(outcome.result.trend) = 2
    /\ outcome.result.trend[1].sgpa # outcome.result.trend[2].sgpa
    /\ outcome.result.trend[1].credits # outcome.result.trend[2].credits

\* C23: every stored subject has one of the three supported credit models:
\* no sequence of subject creations through the backend API or the subject
\* screen stores a subject whose credits is not 2, 4 or 5.
C23_StoredCreditsSupported ==
    \A s \in DOMAIN subjects : subjects[s].credits \in SupportedCredits

\* C28: every stored grade and every stored assessment refers to a subject
\* that still exists: after delete_subject no grade or assessment document
\* of the deleted subject remains.
C28_NoGradeOfADeletedSubject ==
    /\ \A g \in DOMAIN grades : grades[g].subject_id \in DOMAIN subjects
    /\ \A a \in DOMAIN assessments : assessments[a].subject_id \in DOMAIN subjects

\* the user has no stored grade
NoGradeOf(uid) == \A g \in DOMAIN grades : grades[g].user_id # uid

\* a call of calculate_and_store_sgpa by a user without a stored grade raises
\* and leaves every term as it was
SgpaWithoutGradesKeepsTerm ==
    (/\ outcome'.done /\ "op" \in DOMAIN outcome'
     /\ outcome'.op = "calculate_and_store_sgpa"
     /\ NoGradeOf(outcome'.uid)) => (~outcome'.result.ok /\ terms' = terms)

\* save_assessments_and_grade, whether it stores or retracts the final
\* grade, leaves every term as it was
SaveGradeKeepsTerm ==
    (/\ outcome'.done /\ "op" \in DOMAIN outcome'
     /\ outcome'.op = "save_assessments_and_grade") => terms' = terms

\* a term of a user without a stored grade whose sgpa was stored earlier is
\* in the trend of calculate_and_store_cgpa
StoredSgpaEntersCgpa ==
    (LastOp("calculate_and_store_cgpa") /\ NoGradeOf(outcome.uid)) =>
        \A t \in TermsWithSgpa(outcome.uid) :
            /\ outcome.result.ok
            /\ \E i \in 1..Len(outcome.result.trend) :
                  /\ outcome.result.trend[i].sgpa \in terms[t].sgpa
                  /\ outcome.result.trend[i].credits = terms[t].total_credits

\* C30: calculate_and_store_sgpa called while the user has no stored grade
\* raises and leaves the active term's sgpa and total_credits as they were;
\* so an sgpa stored earlier survives the retraction of the term's last final
\* grade and still enters a later calculate_and_store_cgpa.
C30_SgpaSurvivesRetraction ==
    /\ [][SgpaWithoutGradesKeepsTerm /\ SaveGradeKeepsTerm]_vars
    /\ []StoredSgpaEntersCgpa

\* the last grade was retracted, calculate_and_store_sgpa raised, and the
\* active term still holds the sgpa stored before
C30_Witness ==
    /\ LastOp("calculate_and_store_sgpa")
    /\ ~outcome.result.ok
    /\ NoGradeOf(outcome.uid)
    /\ \E t \in ActiveTermId(outcome.uid) :
          terms[t].sgpa # {} /\ terms[t].total_credits > 0

\* the documents of a collection that belong to a user other than uid
OfOthers(docs, uid) == [i \in {j \in DOMAIN docs : docs[j].user_id # uid} |-> docs[i]]

\* the document of that id belongs to a user other than uid
Foreign(docs, uid, document_id) ==
    document_id \in DOMAIN docs /\ docs[document_id].user_id # uid

\* the five collections of subjects, tasks, events, assessments and grades
Collections == <<subjects, tasks_collection, events_collection, assessments, grades>>

\* a call made with user id uid leaves every document of the other users as
\* it was and adds none; a call that names a document of another user
\* changes nothing, and raises when it is set_task_completed or
\* save_assessments_and_grade
OwnDocumentsOnly ==
    (outcome'.done /\ "op" \in DOMAIN outcome') =>
        LET uid == outcome'.uid
            op == outcome'.op
            id == outcome'.args[1]
        IN  /\ OfOthers(subjects', uid) = OfOthers(subjects, uid)
            /\ OfOthers(tasks_collection', uid) = OfOthers(tasks_collection, uid)
            /\ OfOthers(events_collection', uid) = OfOthers(events_collection, uid)
            /\ OfOthers(assessments', uid) = OfOthers(assessments, uid)
            /\ OfOthers(grades', uid) = OfOthers(grades, uid)
            /\ (op \in {"delete_subject", "save_assessments_and_grade"}
                /\ Foreign(subjects, uid, id)) => Collections' = Collections
            /\ (op \in {"delete_task", "set_task_completed"}
                /\ Foreign(tasks_collection, uid, id)) => Collections' = Collections
            /\ (op = "delete_event" /\ Foreign(events_collection, uid, id))
                  => Collections' = Collections
            /\ (op = "save_assessments_and_grade" /\ Foreign(subjects, uid, id))
                  => ~outcome'.result.ok
            /\ (op = "set_task_completed" /\ Foreign(tasks_collection, uid, id))
                  => ~outcome'.result.ok

\* C29: in the Appwrite service no sequence of delete_subject, delete_task,
\* delete_event, set_task_completed and save_assessments_and_grade calls made
\* with user id u creates, changes or deletes a subject, task, event,
\* assessment or grade document of another user: an id of another user's
\* document is treated as not found (the deletes do nothing, the other two
\* raise) and the other user's documents are unchanged.
C29_OtherUsersDocumentsUntouched == [][OwnDocumentsOnly]_vars

\* a user called delete_task with the id of another user's task, which is
\* still stored, after that other user completed it and stored a grade
C29_Witness ==
    /\ LastOp("delete_task")
    /\ Foreign(tasks_collection, outcome.uid, outcome.args[1])
    /\ tasks_collection[outcome.args[1]].completed
    /\ \E g \in DOMAIN grades : grades[g].user_id # outcome.uid

====
